---------------------------- MODULE Spec2Model ----------------------------
(***************************************************************************)
(* Response extraction and payload sanitisation of the hospital-campus     *)
(* navigation assistant.  planRoute exists in three copies in the          *)
(* repository:                                                             *)
(*   - src/unnamed/part_003          filters with the utils/validation     *)
(*                                   type guards (src/unnamed/part_000),   *)
(*   - src/unnamed/part_011          maps through validateCoord and        *)
(*                                   defaults missing fields,              *)
(*   - src/services/geminiService.ts landmarks only, text = summary.       *)
(* Each copy is one action of the model.  planDayItinerary exists in the   *)
(* first two of these files, the render guard isValidCoord in              *)
(* src/components/Map.tsx, src/hooks/useGeolocation.ts and                 *)
(* src/unnamed/part_001, and the vote counter of the community board in    *)
(* src/components/LocalUpdates.tsx with src/unnamed/part_009.  The user    *)
(* interface adds the route planner (src/components/Map.tsx, Home.tsx),    *)
(* startChat, the chat bot (src/components/ChatBot.tsx), the campus        *)
(* context (src/App.tsx) and the fetch of the local updates.  A behaviour  *)
(* exercises one of the components; they share no state.                  *)
(*                                                                         *)
(* Text is a sequence of lexemes: single characters (a backtick, a space,  *)
(* a newline, a quote, JSON punctuation, digits) and whole words (json,    *)
(* null, property names, prose words).  Numbers are integers (degrees).    *)
(*                                                                         *)
(* A value used several times is passed to an operator as its argument.    *)
(***************************************************************************)
EXTENDS Integers, Sequences, FiniteSets, TLC

VARIABLES pc, response, rawText, impl, result,        \* planRoute
          dayPc, dayResponse, dayImpl, dayResult,     \* planDayItinerary
          mapPc, coord, mapImpl, plotted,             \* the render guard
          boardPc, stored, pending, cast, view,       \* the community board
          probePc, probeFn, probeArgs, probeOut,      \* a call of a validator
          planPc, planner, mode, held, loading, currentStepIndex, inflight,
          savedItems, lastEvent,                      \* the route planner
          chatPc, chatInstance, currentChatLanguage, handles, chatRef,
          lastCall,                                   \* startChat
          botPc, botLanguage, messages, botLoading, streams,  \* the chat bot
          appPc, manualLocation, isScbContext, checks,        \* the campus context
          feedPc, deps, updates, feedLoading, requests, issued   \* local updates

routeVars == <<pc, response, rawText, impl, result>>
dayVars == <<dayPc, dayResponse, dayImpl, dayResult>>
mapVars == <<mapPc, coord, mapImpl, plotted>>
boardVars == <<boardPc, stored, pending, cast, view>>

probeVars == <<probePc, probeFn, probeArgs, probeOut>>
plannerVars ==
    <<planPc, planner, mode, held, loading, currentStepIndex, inflight, savedItems,
      lastEvent>>
sessionVars == <<chatPc, chatInstance, currentChatLanguage, handles, chatRef, lastCall>>
botVars == <<botPc, botLanguage, messages, botLoading, streams>>
appVars == <<appPc, manualLocation, isScbContext, checks>>
feedVars == <<feedPc, deps, updates, feedLoading, requests, issued>>

\* The state of the sanitising core, and of the user interface around it.
coreVars == <<routeVars, dayVars, mapVars, boardVars>>
uiVars == <<probeVars, plannerVars, sessionVars, botVars, appVars, feedVars>>

vars == <<coreVars, uiVars>>

---------------------------------------------------------------------------
(* JavaScript values *)

Undef == [t |-> "undefined"]
Null == [t |-> "null"]
NaN == [t |-> "NaN"]
Bool(b) == [t |-> "boolean", b |-> b]
Num(n) == [t |-> "number", n |-> n]
Str(s) == [t |-> "string", s |-> s]
Arr(e) == [t |-> "array", e |-> e]
Obj(f) == [t |-> "object", f |-> f]

\* Object literals with one to four properties (a key is a word).
Obj1(k1, v1) == Obj([k \in {<<k1>>} |-> v1])
Obj2(k1, v1, k2, v2) == Obj([k \in {<<k1>>, <<k2>>} |-> IF k = <<k1>> THEN v1 ELSE v2])
Obj3(k1, v1, k2, v2, k3, v3) ==
    Obj([k \in {<<k1>>, <<k2>>, <<k3>>} |->
           IF k = <<k1>> THEN v1 ELSE IF k = <<k2>> THEN v2 ELSE v3])
Obj4(k1, v1, k2, v2, k3, v3, k4, v4) ==
    Obj([k \in {<<k1>>, <<k2>>, <<k3>>, <<k4>>} |->
           IF k = <<k1>> THEN v1 ELSE IF k = <<k2>> THEN v2
           ELSE IF k = <<k3>> THEN v3 ELSE v4])

\* obj.k for a value that is not null or undefined (those throw a TypeError,
\* which the callers model): a missing property reads as undefined.
Get(v, k) == IF v.t = "object" /\ <<k>> \in DOMAIN v.f THEN v.f[<<k>>] ELSE Undef

\* obj?.k
GetOpt(v, k) == IF v.t \in {"null", "undefined"} THEN Undef ELSE Get(v, k)

Falsy(v) ==
    \/ v.t \in {"undefined", "null", "NaN"}
    \/ v.t = "boolean" /\ ~v.b
    \/ v.t = "number" /\ v.n = 0
    \/ v.t = "string" /\ v.s = <<>>

Truthy(v) == ~Falsy(v)

\* a || b
Or(a, b) == IF Truthy(a) THEN a ELSE b

Abs(n) == IF n < 0 THEN -n ELSE n

---------------------------------------------------------------------------
(* Text: whitespace, trim, digits *)

BT == "backtick"
QUOTE == "\""
Ws(c) == c \in {" ", "\n"}

DigitChars == <<"0", "1", "2", "3", "4", "5", "6", "7", "8", "9">>
IsDigit(c) == \E i \in 1..10 : DigitChars[i] = c
DigitVal(c) == (CHOOSE i \in 1..10 : DigitChars[i] = c) - 1

RECURSIVE DigitsValue(_)
DigitsValue(s) ==
    IF s = <<>> THEN 0
    ELSE DigitsValue(SubSeq(s, 1, Len(s) - 1)) * 10 + DigitVal(s[Len(s)])

RECURSIVE NatDigits(_)
NatDigits(n) ==
    IF n < 10 THEN <<DigitChars[n + 1]>>
    ELSE NatDigits(n \div 10) \o <<DigitChars[(n % 10) + 1]>>

\* First index >= i that is past the end or holds no whitespace.
SkipWs(t, i) ==
    CHOOSE j \in i..(Len(t) + 1) :
        /\ j = Len(t) + 1 \/ ~Ws(t[j])
        /\ \A k \in i..(j - 1) : Ws(t[k])

\* Last index that holds no whitespace, given that index a holds none.
LastNonWs(t, a) ==
    CHOOSE j \in a..Len(t) : ~Ws(t[j]) /\ \A k \in (j + 1)..Len(t) : Ws(t[k])

TrimFrom(t, a) == IF a > Len(t) THEN <<>> ELSE SubSeq(t, a, LastNonWs(t, a))

\* String.prototype.trim
Trim(t) == TrimFrom(t, SkipWs(t, 1))

---------------------------------------------------------------------------
(* Number(val): the conversion validateNumber applies.  Of the numeric    *)
(* literals only the decimal integers are modelled.                        *)

UnsignedToNumber(ds, negative) ==
    IF ds # <<>> /\ \A i \in 1..Len(ds) : IsDigit(ds[i])
    THEN Num(IF negative THEN -DigitsValue(ds) ELSE DigitsValue(ds))
    ELSE NaN

\* b is the trimmed string
TrimmedToNumber(b) ==
    IF b = <<>> THEN Num(0)
    ELSE IF b[1] \in {"-", "+"} THEN UnsignedToNumber(SubSeq(b, 2, Len(b)), b[1] = "-")
    ELSE UnsignedToNumber(b, FALSE)

StringToNumber(s) == TrimmedToNumber(Trim(s))

RECURSIVE ToNumber(_)
ToNumber(v) ==
    CASE v.t = "number" -> v
      [] v.t = "NaN" -> NaN
      [] v.t = "undefined" -> NaN
      [] v.t = "null" -> Num(0)
      [] v.t = "boolean" -> Num(IF v.b THEN 1 ELSE 0)
      [] v.t = "string" -> StringToNumber(v.s)
      [] v.t = "array" ->
            IF Len(v.e) = 0 THEN Num(0)
            ELSE IF Len(v.e) > 1 THEN NaN
            ELSE IF v.e[1].t \in {"null", "undefined"} THEN Num(0)
            ELSE IF v.e[1].t = "boolean" THEN NaN
            ELSE ToNumber(v.e[1])
      [] OTHER -> NaN

---------------------------------------------------------------------------
(* JSON.parse on a lexeme sequence.  Grammar: null, true, false, integers *)
(* (an optional minus, then 0 or a digit run without a leading zero),     *)
(* strings (a quote, lexemes other than a quote or a newline, a quote;    *)
(* the model's strings hold no character that needs an escape), arrays,   *)
(* objects, whitespace between tokens.  A parse step yields [ok, v, i]:   *)
(* success, the value, the index after it.                                 *)

ParseFail == [ok |-> FALSE, v |-> Undef, i |-> 0]
ParseOk(v, i) == [ok |-> TRUE, v |-> v, i |-> i]

\* The string from the quote at i to the quote at j.
StringBetween(t, i, j) ==
    IF \E k \in (i + 1)..(j - 1) : t[k] = "\n" THEN ParseFail
    ELSE ParseOk(Str(SubSeq(t, i + 1, j - 1)), j + 1)

NextQuote(t, i) ==
    CHOOSE j \in (i + 1)..Len(t) : t[j] = QUOTE /\ \A k \in (i + 1)..(j - 1) : t[k] # QUOTE

ParseString(t, i) ==
    IF \E j \in (i + 1)..Len(t) : t[j] = QUOTE
    THEN StringBetween(t, i, NextQuote(t, i))
    ELSE ParseFail

\* Last index of the digit run that starts at d.
DigitRunEnd(t, d) ==
    CHOOSE j \in d..Len(t) :
        /\ \A k \in d..j : IsDigit(t[k])
        /\ j = Len(t) \/ ~IsDigit(t[j + 1])

DigitRun(t, d, e, negative) ==
    ParseOk(Num(IF negative THEN -DigitsValue(SubSeq(t, d, e)) ELSE DigitsValue(SubSeq(t, d, e))),
            e + 1)

\* The digits from index d on.
ParseDigits(t, d, negative) ==
    IF d > Len(t) \/ ~IsDigit(t[d]) THEN ParseFail
    ELSE IF t[d] = "0" THEN ParseOk(Num(0), d + 1)
    ELSE DigitRun(t, d, DigitRunEnd(t, d), negative)

ParseNumber(t, i) ==
    IF t[i] = "-" THEN ParseDigits(t, i + 1, TRUE) ELSE ParseDigits(t, i, FALSE)

\* f with key k set to v (a repeated key keeps its last value).
Put(f, k, v) == [x \in (DOMAIN f) \cup {k} |-> IF x = k THEN v ELSE f[x]]

RECURSIVE ParseValue(_, _), ParseValueAt(_, _), ParseArray(_, _), ParseObject(_, _)
RECURSIVE ParseElements(_, _, _), AfterElement(_, _, _), ElementSep(_, _, _)
RECURSIVE ParseMembers(_, _, _), MemberKey(_, _, _), MemberColon(_, _, _)
RECURSIVE MemberValue(_, _, _, _), AfterMember(_, _, _, _), MemberSep(_, _, _)

ParseValue(t, i) == ParseValueAt(t, SkipWs(t, i))

ParseValueAt(t, i) ==
    IF i > Len(t) THEN ParseFail
    ELSE CASE t[i] = "null" -> ParseOk(Null, i + 1)
           [] t[i] = "true" -> ParseOk(Bool(TRUE), i + 1)
           [] t[i] = "false" -> ParseOk(Bool(FALSE), i + 1)
           [] t[i] = QUOTE -> ParseString(t, i)
           [] t[i] = "-" \/ IsDigit(t[i]) -> ParseNumber(t, i)
           [] t[i] = "[" -> ParseArray(t, SkipWs(t, i + 1))
           [] t[i] = "{" -> ParseObject(t, SkipWs(t, i + 1))
           [] OTHER -> ParseFail

ParseArray(t, j) ==
    IF j <= Len(t) /\ t[j] = "]" THEN ParseOk(Arr(<<>>), j + 1)
    ELSE ParseElements(t, j, <<>>)

\* The elements of an array from index i on, acc the elements read so far.
ParseElements(t, i, acc) == AfterElement(t, ParseValue(t, i), acc)

AfterElement(t, r, acc) ==
    IF ~r.ok THEN ParseFail ELSE ElementSep(t, SkipWs(t, r.i), Append(acc, r.v))

ElementSep(t, j, acc) ==
    IF j > Len(t) THEN ParseFail
    ELSE IF t[j] = "," THEN ParseElements(t, j + 1, acc)
    ELSE IF t[j] = "]" THEN ParseOk(Arr(acc), j + 1)
    ELSE ParseFail

ParseObject(t, j) ==
    IF j <= Len(t) /\ t[j] = "}" THEN ParseOk(Obj(<<>>), j + 1)
    ELSE ParseMembers(t, j, <<>>)

\* The members of an object from index i on, f the members read so far.
ParseMembers(t, i, f) == MemberKey(t, SkipWs(t, i), f)

MemberKey(t, a, f) ==
    IF a > Len(t) \/ t[a] # QUOTE THEN ParseFail
    ELSE MemberColon(t, ParseString(t, a), f)

MemberColon(t, k, f) ==
    IF ~k.ok THEN ParseFail ELSE MemberValue(t, k.v.s, SkipWs(t, k.i), f)

MemberValue(t, key, c, f) ==
    IF c > Len(t) \/ t[c] # ":" THEN ParseFail
    ELSE AfterMember(t, ParseValue(t, c + 1), key, f)

AfterMember(t, r, key, f) ==
    IF ~r.ok THEN ParseFail ELSE MemberSep(t, SkipWs(t, r.i), Put(f, key, r.v))

MemberSep(t, j, g) ==
    IF j > Len(t) THEN ParseFail
    ELSE IF t[j] = "," THEN ParseMembers(t, j + 1, g)
    ELSE IF t[j] = "}" THEN ParseOk(Obj(g), j + 1)
    ELSE ParseFail

\* The whole text must be one value.
WholeValue(t, r) ==
    IF r.ok /\ SkipWs(t, r.i) > Len(t)
    THEN [ok |-> TRUE, v |-> r.v]
    ELSE [ok |-> FALSE, v |-> Undef]

\* JSON.parse(text): [ok, v]; ok = FALSE is the SyntaxError it throws.
JsonParse(t) == WholeValue(t, ParseValue(t, 1))

---------------------------------------------------------------------------
(* JSON.stringify (no indentation), the serialisation of the payloads     *)
(* the AI service is asked for.  Properties are written in the order of   *)
(* KeyOrder.                                                               *)

KeyOrder == <<"steps", "landmarks", "traffic", "summary", "audioWhisper",
              "description", "name", "level", "path", "position",
              "lat", "lng", "floor", "internalLandmark", "extra">>

RECURSIVE Stringify(_), StringifyElems(_, _), StringifyMembers(_, _, _)

Stringify(v) ==
    CASE v.t = "null" -> <<"null">>
      [] v.t = "boolean" -> IF v.b THEN <<"true">> ELSE <<"false">>
      [] v.t = "number" -> IF v.n < 0 THEN <<"-">> \o NatDigits(-v.n) ELSE NatDigits(v.n)
      [] v.t = "string" -> <<QUOTE>> \o v.s \o <<QUOTE>>
      [] v.t = "array" -> <<"[">> \o StringifyElems(v.e, 1) \o <<"]">>
      [] v.t = "object" -> <<"{">> \o StringifyMembers(v.f, 1, TRUE) \o <<"}">>
      [] OTHER -> <<"null">>

StringifyElems(e, i) ==
    IF i > Len(e) THEN <<>>
    ELSE (IF i > 1 THEN <<",">> ELSE <<>>) \o Stringify(e[i]) \o StringifyElems(e, i + 1)

StringifyMembers(f, i, first) ==
    IF i > Len(KeyOrder) THEN <<>>
    ELSE IF <<KeyOrder[i]>> \in DOMAIN f
    THEN (IF first THEN <<>> ELSE <<",">>)
         \o <<QUOTE, KeyOrder[i], QUOTE, ":">> \o Stringify(f[<<KeyOrder[i]>>])
         \o StringifyMembers(f, i + 1, FALSE)
    ELSE StringifyMembers(f, i + 1, first)

---------------------------------------------------------------------------
(* rawText.match(jsonBlockRegex): three backticks, json, \s*, a lazy      *)
(* group, \s*, three backticks; and rawText.replace(jsonBlockRegex, '').  *)

IsOpener(t, i) ==
    i + 3 <= Len(t) /\ t[i] = BT /\ t[i + 1] = BT /\ t[i + 2] = BT /\ t[i + 3] = "json"

IsCloser(t, j) == j + 2 <= Len(t) /\ t[j] = BT /\ t[j + 1] = BT /\ t[j + 2] = BT

NoMatch == [found |-> FALSE, start |-> 0, end |-> 0, g1 |-> <<>>]

\* The openers that some closer follows: where the regex can match.
MatchStarts(t) ==
    {i \in 1..Len(t) : IsOpener(t, i) /\ \E j \in (i + 4)..Len(t) : IsCloser(t, j)}

\* A greedy group would give way at the last closer.
LastCloser(t, w) ==
    CHOOSE x \in w..Len(t) : IsCloser(t, x) /\ \A y \in (x + 1)..Len(t) : ~IsCloser(t, y)

\* The lazy group gives way at the first closer at or after index w.
FirstCloser(t, w) ==
    CHOOSE x \in w..Len(t) : IsCloser(t, x) /\ \A y \in w..(x - 1) : ~IsCloser(t, y)

\* The group ends where the whitespace before the closer at j begins.
GroupEnd(t, w, j) ==
    CHOOSE x \in w..j : (\A k \in x..(j - 1) : Ws(t[k])) /\ (x = w \/ ~Ws(t[x - 1]))

MatchGroup(t, i, w, j) ==
    [found |-> TRUE, start |-> i, end |-> j + 2, g1 |-> SubSeq(t, w, GroupEnd(t, w, j) - 1)]

\* The match that starts at i; the greedy \s* ends at index w.
MatchFrom(t, i, w) == MatchGroup(t, i, w, FirstCloser(t, w))

\* A regex without the g flag yields its leftmost match.
LeftmostMatch(t, starts) ==
    IF starts = {} THEN NoMatch
    ELSE MatchFrom(t, CHOOSE x \in starts : \A y \in starts : x <= y,
                   SkipWs(t, 4 + CHOOSE x \in starts : \A y \in starts : x <= y))

RegexMatch(t) == LeftmostMatch(t, MatchStarts(t))

\* replace(jsonBlockRegex, ''): the match m is cut out of the text.
CutMatch(t, m) ==
    IF m.found THEN SubSeq(t, 1, m.start - 1) \o SubSeq(t, m.end + 1, Len(t)) ELSE t

\* rawText.replace(jsonBlockRegex, '').trim(), m being the regex's match in t
RemoveBlock(t, m) == Trim(CutMatch(t, m))

---------------------------------------------------------------------------
(* utils/validation (src/unnamed/part_000): the type guards.  A guard     *)
(* written  data && a && b  returns data itself when data is falsy, so    *)
(* the guards yield JavaScript values; filter() keeps the truthy ones.    *)

isNumber(val) == val.t = "number"
isString(val) == val.t = "string"
isArray(val) == val.t = "array"

isRouteCoordinate(data) ==
    IF Falsy(data) THEN data
    ELSE Bool(isNumber(Get(data, "lat")) /\ isNumber(Get(data, "lng")))

\* data.path.every(isRouteCoordinate)
EveryRouteCoordinate(path) ==
    \A i \in 1..Len(path.e) : Truthy(isRouteCoordinate(path.e[i]))

isRouteStep(data) ==
    IF Falsy(data) THEN data
    ELSE Bool(/\ isString(Get(data, "description"))
              /\ isArray(Get(data, "path"))
              /\ EveryRouteCoordinate(Get(data, "path")))

isLandmark(data) ==
    IF Falsy(data) THEN data
    ELSE IF ~isString(Get(data, "name")) THEN Bool(FALSE)
    ELSE isRouteCoordinate(Get(data, "position"))

TrafficLevels == {<<"light">>, <<"moderate">>, <<"heavy">>}

isTrafficSegment(data) ==
    IF Falsy(data) THEN data
    ELSE Bool(/\ isArray(Get(data, "path"))
              /\ EveryRouteCoordinate(Get(data, "path"))
              /\ isString(Get(data, "level"))
              /\ Get(data, "level").s \in TrafficLevels
              /\ isString(Get(data, "description")))

---------------------------------------------------------------------------
(* The sanitising constructors (src/services/geminiService.ts and, word   *)
(* for word, src/unnamed/part_011).                                        *)

MaxAbsLat == 90
MaxAbsLng == 180

\* if (isNaN(num)) return null; return num;
NullIfNaN(num) == IF num.t = "NaN" THEN Null ELSE num

validateNumber(val) == NullIfNaN(ToNumber(val))

CoordOrNull(vLat, vLng) ==
    IF vLat = Null \/ vLng = Null THEN Null
    ELSE IF Abs(vLat.n) > MaxAbsLat \/ Abs(vLng.n) > MaxAbsLng THEN Null
    ELSE Obj2("lat", vLat, "lng", vLng)

validateCoord(lat, lng) == CoordOrNull(validateNumber(lat), validateNumber(lng))

NotNull(p) == p # Null

\* pts.map((p) => validateCoord(p?.lat, p?.lng)).filter((p) => p !== null)
ValidPath(pts) ==
    SelectSeq([i \in 1..Len(pts) |->
                  validateCoord(GetOpt(pts[i], "lat"), GetOpt(pts[i], "lng"))],
              NotNull)

\* A sanitiser that would lose the first valid point of a path.
PathOfTail(x) ==
    IF isArray(Get(x, "path")) /\ ValidPath(Get(x, "path").e) # <<>>
    THEN Tail(ValidPath(Get(x, "path").e))
    ELSE <<>>

\* Array.isArray(x.path) ? <ValidPath> : []
PathOf(x) == IF isArray(Get(x, "path")) THEN ValidPath(Get(x, "path").e) ELSE <<>>

\* validateCoord(lm.position?.lat, lm.position?.lng)
PositionOf(lm) ==
    validateCoord(GetOpt(Get(lm, "position"), "lat"), GetOpt(Get(lm, "position"), "lng"))

\* arr.map((x) => ... x.field ...) throws a TypeError on a null element.
MapThrows(arr) == \E i \in 1..Len(arr) : arr[i] = Null

\* parsedJson.key && Array.isArray(parsedJson.key)
HasArray(parsed, key) == Truthy(Get(parsed, key)) /\ isArray(Get(parsed, key))

---------------------------------------------------------------------------
(* planRoute, copy of src/unnamed/part_003: filter with the type guards.  *)

\* The result that would trim the text it is given.
TrimmedRoute(text) ==
    [text |-> Str(Trim(text.s)), steps |-> <<>>, landmarks |-> <<>>,
     trafficSegments |-> <<>>]

\* let steps = [], landmarks = [], trafficSegments = [], text = rawText
EmptyRoute(text) ==
    [text |-> text, steps |-> <<>>, landmarks |-> <<>>, trafficSegments |-> <<>>]

KeepRouteStep(x) == Truthy(isRouteStep(x))
KeepLandmark(x) == Truthy(isLandmark(x))
KeepTrafficSegment(x) == Truthy(isTrafficSegment(x))

GuardSteps(pj) ==
    IF HasArray(pj, "steps") THEN SelectSeq(Get(pj, "steps").e, KeepRouteStep) ELSE <<>>

GuardLandmarks(pj) ==
    IF HasArray(pj, "landmarks") THEN SelectSeq(Get(pj, "landmarks").e, KeepLandmark)
    ELSE <<>>

GuardTraffic(pj) ==
    IF HasArray(pj, "traffic") THEN SelectSeq(Get(pj, "traffic").e, KeepTrafficSegment)
    ELSE <<>>

\* A catch that would remove the fenced block from the text all the same.
GuardsOnParsedCut(raw, match, parsedJson) ==
    IF ~parsedJson.ok \/ parsedJson.v = Null
    THEN [text |-> Str(RemoveBlock(raw, match)), steps |-> <<>>, landmarks |-> <<>>,
          trafficSegments |-> <<>>]
    ELSE [text |-> Str(RemoveBlock(raw, match)),
          steps |-> GuardSteps(parsedJson.v),
          landmarks |-> GuardLandmarks(parsedJson.v),
          trafficSegments |-> GuardTraffic(parsedJson.v)]

\* The try block: JSON.parse threw, or parsedJson is null and reading
\* parsedJson.steps threw; the catch only logs.
GuardsOnParsed(raw, match, parsedJson) ==
    IF ~parsedJson.ok \/ parsedJson.v = Null THEN EmptyRoute(Str(raw))
    ELSE [text |-> Str(RemoveBlock(raw, match)),
          steps |-> GuardSteps(parsedJson.v),
          landmarks |-> GuardLandmarks(parsedJson.v),
          trafficSegments |-> GuardTraffic(parsedJson.v)]

\* if (match && match[1])
GuardsOnMatch(raw, match) ==
    IF match.found /\ match.g1 # <<>>
    THEN GuardsOnParsed(raw, match, JsonParse(match.g1))
    ELSE EmptyRoute(Str(raw))

planRouteGuards(raw) == GuardsOnMatch(raw, RegexMatch(raw))

---------------------------------------------------------------------------
(* planRoute, copy of src/unnamed/part_011: map through validateCoord,    *)
(* default the missing fields, keep what has enough valid points.  The    *)
(* three sections run in order inside one try block: a TypeError in one   *)
(* keeps what the earlier sections assigned and leaves text = rawText.    *)

StrictStep(step) ==
    Obj2("description", Or(Get(step, "description"), Str(<<"Move to next point">>)),
         "path", Arr(PathOf(step)))

StrictLandmark(lm) ==
    Obj2("name", Or(Get(lm, "name"), Str(<<"Landmark">>)), "position", PositionOf(lm))

StrictTraffic(seg) ==
    Obj3("level", Or(Get(seg, "level"), Str(<<"moderate">>)),
         "description", Or(Get(seg, "description"), Str(<<"Traffic info">>)),
         "path", Arr(PathOf(seg)))

HasPoint(x) == Len(Get(x, "path").e) > 0
HasTwoPoints(x) == Len(Get(x, "path").e) > 1
HasPosition(x) == Get(x, "position") # Null

StrictSteps(pj) ==
    IF HasArray(pj, "steps")
    THEN SelectSeq([i \in 1..Len(Get(pj, "steps").e) |-> StrictStep(Get(pj, "steps").e[i])],
                   HasPoint)
    ELSE <<>>

StrictLandmarks(pj) ==
    IF HasArray(pj, "landmarks")
    THEN SelectSeq([i \in 1..Len(Get(pj, "landmarks").e) |->
                       StrictLandmark(Get(pj, "landmarks").e[i])],
                   HasPosition)
    ELSE <<>>

StrictTrafficSegments(pj) ==
    IF HasArray(pj, "traffic")
    THEN SelectSeq([i \in 1..Len(Get(pj, "traffic").e) |->
                       StrictTraffic(Get(pj, "traffic").e[i])],
                   HasTwoPoints)
    ELSE <<>>

\* Does the section of `key` throw?
SectionThrows(pj, key) == HasArray(pj, key) /\ MapThrows(Get(pj, key).e)

\* How many of the three sections complete, in order, before one throws.
SectionsDone(pj) ==
    IF SectionThrows(pj, "steps") THEN 0
    ELSE IF SectionThrows(pj, "landmarks") THEN 1
    ELSE IF SectionThrows(pj, "traffic") THEN 2
    ELSE 3

\* The result once `done` sections have completed: the text is replaced
\* after the third.
StrictSections(raw, match, pj, done) ==
    [text |-> IF done = 3 THEN Str(RemoveBlock(raw, match)) ELSE Str(raw),
     steps |-> IF done >= 1 THEN StrictSteps(pj) ELSE <<>>,
     landmarks |-> IF done >= 2 THEN StrictLandmarks(pj) ELSE <<>>,
     trafficSegments |-> IF done = 3 THEN StrictTrafficSegments(pj) ELSE <<>>]

StrictOnParsed(raw, match, parsedJson) ==
    IF ~parsedJson.ok \/ parsedJson.v = Null THEN EmptyRoute(Str(raw))
    ELSE StrictSections(raw, match, parsedJson.v, SectionsDone(parsedJson.v))

StrictOnMatch(raw, match) ==
    IF match.found /\ match.g1 # <<>>
    THEN StrictOnParsed(raw, match, JsonParse(match.g1))
    ELSE EmptyRoute(Str(raw))

planRouteStrict(raw) == StrictOnMatch(raw, RegexMatch(raw))

---------------------------------------------------------------------------
(* planRoute of src/services/geminiService.ts: landmarks only; the text   *)
(* returned is the payload's summary, the raw text on any failure.        *)

ServiceResult(text, audioWhisper, landmarks) ==
    [text |-> text, audioWhisper |-> audioWhisper, landmarks |-> landmarks]

ServiceLandmark(lm) ==
    Obj4("name", Get(lm, "name"),
         "position", PositionOf(lm),
         "floor", Or(validateNumber(Get(lm, "floor")), Num(0)),
         "internalLandmark", Get(lm, "internalLandmark"))

\* (parsed.landmarks || []).map(...).filter((lm) => lm.position !== null)
ServiceLandmarks(parsed) ==
    IF isArray(Get(parsed, "landmarks"))
    THEN SelectSeq([i \in 1..Len(Get(parsed, "landmarks").e) |->
                       ServiceLandmark(Get(parsed, "landmarks").e[i])],
                   HasPosition)
    ELSE <<>>

\* parsed.landmarks throws on null; a truthy value that is no array has no
\* map method; a null element has no name.
ServiceThrows(parsed) ==
    \/ parsed = Null
    \/ Truthy(Get(parsed, "landmarks")) /\ ~isArray(Get(parsed, "landmarks"))
    \/ isArray(Get(parsed, "landmarks")) /\ MapThrows(Get(parsed, "landmarks").e)

\* catch (e) { text = rawText; } and the else branch
ServiceFailed(raw) == ServiceResult(Str(raw), Str(<<>>), <<>>)

ServiceOnParsed(raw, parsed) ==
    IF ~parsed.ok \/ ServiceThrows(parsed.v) THEN ServiceFailed(raw)
    ELSE ServiceResult(Or(Get(parsed.v, "summary"), Str(<<>>)),
                       Or(Get(parsed.v, "audioWhisper"), Str(<<>>)),
                       ServiceLandmarks(parsed.v))

ServiceOnMatch(raw, match) ==
    IF match.found /\ match.g1 # <<>>
    THEN ServiceOnParsed(raw, JsonParse(match.g1))
    ELSE ServiceFailed(raw)

planRouteService(raw) == ServiceOnMatch(raw, RegexMatch(raw))

\* The catch blocks around the whole of planRoute (the request failed).
RouteFallback ==
    EmptyRoute(Str(<<"Sorry, I couldn't plan a route. Check your API Key.">>))

ServiceFallback ==
    ServiceResult(Str(<<"Direct path to building available. GPS Compass mode active.">>),
                  Str(<<"Walk straight towards the main hospital building.">>), <<>>)

---------------------------------------------------------------------------
(* The replies of the AI service that the model explores.                  *)

MaxArr == 2      \* longest steps / landmarks / traffic array
MaxProse == 2    \* longest prose before and after the fenced block
MaxRaw == 3      \* longest reply without any payload

SeqsUpTo(A, n) == UNION {[1..k -> A] : k \in 0..n}

Coord(lat, lng) == Obj2("lat", Num(lat), "lng", Num(lng))
Step(desc, path) == Obj2("description", Str(desc), "path", Arr(path))
Landmark(name, pos) == Obj2("name", Str(name), "position", pos)
Traffic(level, desc, path) ==
    Obj3("level", Str(level), "description", Str(desc), "path", Arr(path))

cOk == Coord(20, 85)
cOk2 == Coord(21, 86)
cZero == Coord(0, 0)
cOut == Coord(91, 85)
cText == Obj2("lat", Str(<<"2", "0">>), "lng", Str(<<"8", "5">>))
cBad == Obj2("lat", Str(<<"x">>), "lng", Num(85))

StepPool ==
    { Step(<<"walk">>, <<cOk, cOk2>>),
      Obj1("path", Arr(<<cOk>>)),
      Step(<<"walk">>, <<cOk, cBad>>),
      Step(<<"walk">>, <<>>),
      Step(<<"walk">>, <<cOut>>),
      Null }

LandmarkPool ==
    { Landmark(<<"Gate">>, cOk),
      Landmark(<<"Gate">>, cZero),
      Landmark(<<"Gate">>, cOut),
      Obj1("position", cOk2),
      Landmark(<<"Gate">>, cText),
      Obj3("name", Str(<<"Ward">>), "position", cOk2, "floor", Num(4)),
      Null }

TrafficPool ==
    { Traffic(<<"light">>, <<"jam">>, <<cOk, cOk2>>),
      Traffic(<<"extreme">>, <<"jam">>, <<cOk, cOk2>>),
      Traffic(<<"Heavy">>, <<"jam">>, <<cOk, cOk2>>),
      Obj2("description", Str(<<"jam">>), "path", Arr(<<cOk, cOk2>>)),
      Traffic(<<"heavy">>, <<"jam">>, <<cOk>>),
      Null }

\* Latitudes and longitudes around the bounds of validateCoord.
Lats == {-(MaxAbsLat + 1), -MaxAbsLat, -1, 0, 1, MaxAbsLat, MaxAbsLat + 1}
Lngs == {-(MaxAbsLng + 1), -MaxAbsLng, 0, 85, MaxAbsLng, MaxAbsLng + 1}

ArraysOf(pool) == {Arr(e) : e \in SeqsUpTo(pool, MaxArr)}

\* Payloads with one key, its array over a pool.
OneKeyPayloads ==
    {Obj1("steps", a) : a \in ArraysOf(StepPool)}
    \cup {Obj1("landmarks", a) : a \in ArraysOf(LandmarkPool)}
    \cup {Obj1("traffic", a) : a \in ArraysOf(TrafficPool)}

\* Payloads with the three keys, valid or throwing in each section.
ThreeKeyPayloads ==
    {Obj4("steps", Arr(<<s>>), "landmarks", Arr(<<l>>), "traffic", Arr(<<t>>),
          "summary", Str(<<"route">>)) :
        s \in {Step(<<"walk">>, <<cOk, cOk2>>), Null},
        l \in {Landmark(<<"Gate">>, cOk), Null},
        t \in {Traffic(<<"light">>, <<"jam">>, <<cOk, cOk2>>), Null}}

\* One landmark, or one single-point step, at each grid coordinate.
GridPayloads ==
    {Obj1("landmarks", Arr(<<Landmark(<<"Gate">>, Coord(lat, lng))>>)) :
        lat \in Lats, lng \in Lngs}
    \cup {Obj1("steps", Arr(<<Step(<<"walk">>, <<Coord(lat, lng)>>)>>)) :
        lat \in Lats, lng \in Lngs}

\* Payloads that are no object, or whose keys hold no array, or unknown keys.
OddPayloads ==
    { Null, Num(5), Str(<<"walk">>), Arr(<<>>), Obj(<<>>),
      Obj2("steps", Num(5), "landmarks", Str(<<"Gate">>)),
      Obj2("landmarks", Obj(<<>>), "traffic", Bool(TRUE)),
      Obj3("steps", Null, "landmarks", Num(0), "traffic", Str(<<>>)),
      Obj2("extra", Arr(<<Landmark(<<"Gate">>, cOk)>>), "summary", Str(<<"route">>)) }

\* The payloads sent between varied prose.
ValidPayload ==
    Obj4("steps", Arr(<<Step(<<"walk">>, <<cOk, cOk2>>)>>),
         "landmarks", Arr(<<Landmark(<<"Gate">>, cOk)>>),
         "traffic", Arr(<<>>),
         "summary", Str(<<"route">>))

TickedPayload ==
    Obj1("landmarks", Arr(<<Landmark(<<"a", BT, BT, BT, "b">>, cOk)>>))

ProsePayloads == {ValidPayload, TickedPayload, Obj1("landmarks", Arr(<<Null>>))}

\* The payload of a second fenced block: entries no first block holds.
SecondPayload ==
    Obj3("steps", Arr(<<Step(<<"second">>, <<cOk2, cOk>>)>>),
         "landmarks", Arr(<<Landmark(<<"second">>, cOk2)>>),
         "traffic", Arr(<<Traffic(<<"heavy">>, <<"second">>, <<cOk2, cOk>>)>>))

\* Interiors of a fenced block that are no JSON.
BrokenInteriors ==
    { <<"{">>, <<"walk">>, <<"[", "1", ",", "]">>,
      <<"{", QUOTE, "steps", QUOTE, ":", "[", "}">>,
      <<"{", QUOTE, "steps", QUOTE, ":", "[", "]", "}", "walk">>,
      <<QUOTE, "walk">>, <<"0", "1">> }

ProseAlphabet == {"a", " ", "\n"}
RawAlphabet == {"a", " ", BT, "json"}
Prose == SeqsUpTo(ProseAlphabet, MaxProse)
FewProse == {<<>>, <<"a">>, <<" ", "a", "\n">>}

Open == <<BT, BT, BT, "json">>
Close == <<BT, BT, BT>>
Fence(inner) == Open \o <<"\n">> \o inner \o <<"\n">> \o Close

\* Replies without a payload: short texts, an opener never closed, a fence
\* without the json tag, a fence with nothing inside.
UnfencedTexts ==
    SeqsUpTo(RawAlphabet, MaxRaw)
    \cup { Open \o <<" ", "a">>,
           <<" ">> \o Close \o <<"a">> \o Close \o <<" ">>,
           <<"a", " ">> \o Close \o Stringify(ValidPayload) \o Close,
           <<"json", " ">> \o Stringify(ValidPayload) \o <<"\n">> }

EmptyFenceTexts == {p \o Open \o w \o Close \o <<"a">> : p \in FewProse, w \in {<<>>, <<" ">>}}

Responses ==
    {[kind |-> "error"]}
    \cup {[kind |-> "fenced", P |-> <<>>, O |-> o, P2 |-> <<>>] :
            o \in OneKeyPayloads \cup ThreeKeyPayloads \cup GridPayloads \cup OddPayloads}
    \cup {[kind |-> "fenced", P |-> p, O |-> o, P2 |-> q] :
            p \in Prose, q \in Prose, o \in ProsePayloads}
    \cup {[kind |-> "broken", P |-> p, inner |-> x, P2 |-> q] :
            p \in FewProse, q \in FewProse, x \in BrokenInteriors}
    \cup {[kind |-> "two", P |-> p, O |-> o, mid |-> m, P2 |-> q] :
            p \in FewProse, q \in FewProse, m \in FewProse,
            o \in ProsePayloads \cup {Null}}
    \cup {[kind |-> "twobroken", P |-> p, inner |-> x, mid |-> m, P2 |-> q] :
            p \in {<<>>, <<"a">>}, q \in {<<>>, <<"a">>}, m \in {<<>>, <<"a">>},
            x \in BrokenInteriors}
    \cup {[kind |-> "raw", text |-> t] : t \in UnfencedTexts \cup EmptyFenceTexts}

\* The text of a reply (extractTextSafe(response) / response.text || "").
TextOf(r) ==
    CASE r.kind = "fenced" -> r.P \o Fence(Stringify(r.O)) \o r.P2
      [] r.kind = "broken" -> r.P \o Fence(r.inner) \o r.P2
      [] r.kind = "two" ->
            r.P \o Fence(Stringify(r.O)) \o r.mid \o Fence(Stringify(SecondPayload)) \o r.P2
      [] r.kind = "twobroken" ->
            r.P \o Fence(r.inner) \o r.mid \o Fence(Stringify(SecondPayload)) \o r.P2
      [] r.kind = "raw" -> r.text
      [] OTHER -> <<>>

---------------------------------------------------------------------------
(* planDayItinerary: the reply carries function calls (location, line)    *)
(* and text parts.  Two copies: src/unnamed/part_003 builds a candidate   *)
(* with Number() and keeps it when its type guard holds;                   *)
(* src/unnamed/part_011 builds the record through validateCoord.           *)

\* An object literal: property ks[i] holds vs[i].
ObjFrom(ks, vs) ==
    Obj([k \in {<<ks[i]>> : i \in 1..Len(ks)} |->
            vs[CHOOSE i \in 1..Len(ks) : <<ks[i]>> = k]])

LocationKeys == <<"name", "description", "lat", "lng", "time", "duration", "sequence">>
RouteKeys == <<"name", "start", "end", "transport", "travelTime">>

\* x === undefined || isString(x)
OptionalString(x) == x = Undef \/ isString(x)

isItineraryLocation(data) ==
    IF Falsy(data) THEN data
    ELSE Bool(/\ isString(Get(data, "name"))
              /\ isString(Get(data, "description"))
              /\ isNumber(Get(data, "lat"))
              /\ isNumber(Get(data, "lng"))
              /\ OptionalString(Get(data, "time"))
              /\ OptionalString(Get(data, "duration"))
              /\ (Get(data, "sequence") = Undef \/ isNumber(Get(data, "sequence"))))

isItineraryRoute(data) ==
    IF Falsy(data) THEN data
    ELSE IF ~isString(Get(data, "name")) THEN Bool(FALSE)
    ELSE IF Falsy(isRouteCoordinate(Get(data, "start")))
    THEN isRouteCoordinate(Get(data, "start"))
    ELSE IF Falsy(isRouteCoordinate(Get(data, "end")))
    THEN isRouteCoordinate(Get(data, "end"))
    ELSE Bool(OptionalString(Get(data, "transport"))
              /\ OptionalString(Get(data, "travelTime")))

\* extractTextSafe: the text parts of the first candidate, concatenated.
RECURSIVE extractTextSafe(_)
extractTextSafe(parts) ==
    IF parts = <<>> THEN <<>>
    ELSE (IF Truthy(Get(parts[1], "text")) THEN Get(parts[1], "text").s ELSE <<>>)
         \o extractTextSafe(Tail(parts))

\* if (response.functionCalls) for (const fc of response.functionCalls)
CallsOf(resp) == IF Truthy(resp.functionCalls) THEN resp.functionCalls.e ELSE <<>>

\* if (!args) continue; if (fc.name === 'location') / 'line'
IsLocationCall(fc) == Truthy(fc.args) /\ fc.name = "location"
IsLineCall(fc) == Truthy(fc.args) /\ fc.name = "line"

\* locations.sort((a, b) => (a.sequence || 0) - (b.sequence || 0)): the
\* comparator's key, and the stable sort as an insertion sort.
SequenceKey(loc) == Or(Get(loc, "sequence"), Num(0)).n

InsertAt(s, x, n) == SubSeq(s, 1, n) \o <<x>> \o SubSeq(s, n + 1, Len(s))

\* A sort that would put x before the elements of equal key.
InsertBefore(s, x) ==
    InsertAt(s, x, Cardinality({i \in 1..Len(s) : SequenceKey(s[i]) < SequenceKey(x)}))

\* x goes behind every element of the sorted s whose key is not greater.
InsertSorted(s, x) ==
    InsertAt(s, x, Cardinality({i \in 1..Len(s) : SequenceKey(s[i]) <= SequenceKey(x)}))

RECURSIVE SortBySequence(_)
SortBySequence(locs) ==
    IF locs = <<>> THEN <<>>
    ELSE InsertSorted(SortBySequence(SubSeq(locs, 1, Len(locs) - 1)), locs[Len(locs)])

DayResult(locations, lines, summaryText) ==
    [locations |-> locations, lines |-> lines, summaryText |-> summaryText]

\* The copy of src/unnamed/part_003.
PotentialLoc(args) ==
    ObjFrom(LocationKeys,
            <<Get(args, "name"), Get(args, "description"),
              ToNumber(Get(args, "lat")), ToNumber(Get(args, "lng")),
              Get(args, "time"), Get(args, "duration"),
              ToNumber(Get(args, "sequence"))>>)

PotentialRoute(args) ==
    ObjFrom(RouteKeys,
            <<Get(args, "name"),
              Obj2("lat", ToNumber(GetOpt(Get(args, "start"), "lat")),
                   "lng", ToNumber(GetOpt(Get(args, "start"), "lng"))),
              Obj2("lat", ToNumber(GetOpt(Get(args, "end"), "lat")),
                   "lng", ToNumber(GetOpt(Get(args, "end"), "lng"))),
              Get(args, "transport"), Get(args, "travelTime")>>)

KeepItineraryLocation(x) == Truthy(isItineraryLocation(x))
KeepItineraryRoute(x) == Truthy(isItineraryRoute(x))

PotentialLocs(fcs) == [i \in 1..Len(fcs) |-> PotentialLoc(fcs[i].args)]
PotentialRoutes(fcs) == [i \in 1..Len(fcs) |-> PotentialRoute(fcs[i].args)]

GuardDayLocations(calls) ==
    SelectSeq(PotentialLocs(SelectSeq(calls, IsLocationCall)), KeepItineraryLocation)

GuardDayLines(calls) ==
    SelectSeq(PotentialRoutes(SelectSeq(calls, IsLineCall)), KeepItineraryRoute)

planDayItineraryGuards(resp) ==
    DayResult(SortBySequence(GuardDayLocations(CallsOf(resp))),
              GuardDayLines(CallsOf(resp)),
              Str(extractTextSafe(resp.parts)))

\* The copy of src/unnamed/part_011.
HasCoord(fc) == Truthy(validateCoord(Get(fc.args, "lat"), Get(fc.args, "lng")))

StrictLocation(args) ==
    ObjFrom(LocationKeys,
            <<Or(Get(args, "name"), Str(<<"Location">>)),
              Or(Get(args, "description"), Str(<<>>)),
              Get(validateCoord(Get(args, "lat"), Get(args, "lng")), "lat"),
              Get(validateCoord(Get(args, "lat"), Get(args, "lng")), "lng"),
              Get(args, "time"), Get(args, "duration"),
              Or(validateNumber(Get(args, "sequence")), Num(0))>>)

StartOf(args) == validateCoord(GetOpt(Get(args, "start"), "lat"), GetOpt(Get(args, "start"), "lng"))
EndOf(args) == validateCoord(GetOpt(Get(args, "end"), "lat"), GetOpt(Get(args, "end"), "lng"))

\* if (start && end)
HasEnds(fc) == Truthy(StartOf(fc.args)) /\ Truthy(EndOf(fc.args))

StrictRoute(args) ==
    ObjFrom(RouteKeys,
            <<Or(Get(args, "name"), Str(<<"Route">>)), StartOf(args), EndOf(args),
              Get(args, "transport"), Get(args, "travelTime")>>)

StrictLocationsOf(fcs) == [i \in 1..Len(fcs) |-> StrictLocation(fcs[i].args)]
StrictRoutesOf(fcs) == [i \in 1..Len(fcs) |-> StrictRoute(fcs[i].args)]

StrictDayLocations(calls) ==
    StrictLocationsOf(SelectSeq(SelectSeq(calls, IsLocationCall), HasCoord))

StrictDayLines(calls) ==
    StrictRoutesOf(SelectSeq(SelectSeq(calls, IsLineCall), HasEnds))

planDayItineraryStrict(resp) ==
    DayResult(SortBySequence(StrictDayLocations(CallsOf(resp))),
              StrictDayLines(CallsOf(resp)),
              Str(extractTextSafe(resp.parts)))

\* catch (error) { console.error(...); throw error; }
DayThrown == [thrown |-> TRUE]

---------------------------------------------------------------------------
(* The render guard of the map components: isValidCoord, in three copies. *)

\* !isNaN(nLat) && !isNaN(nLng) && nLat !== 0 && nLng !== 0
NonZeroNumbers(nLat, nLng) ==
    nLat.t = "number" /\ nLng.t = "number" /\ nLat.n # 0 /\ nLng.n # 0

\* ... && Math.abs(nLat) <= 90 && Math.abs(nLng) <= 180
BoundedNonZeroNumbers(nLat, nLng) ==
    /\ NonZeroNumbers(nLat, nLng)
    /\ Abs(nLat.n) <= MaxAbsLat
    /\ Abs(nLng.n) <= MaxAbsLng

\* src/components/Map.tsx
isValidCoord(lat, lng) == NonZeroNumbers(ToNumber(lat), ToNumber(lng))

\* src/hooks/useGeolocation.ts
isValidCoordHook(lat, lng) == NonZeroNumbers(ToNumber(lat), ToNumber(lng))

\* src/unnamed/part_001
isValidCoordBounded(lat, lng) == BoundedNonZeroNumbers(ToNumber(lat), ToNumber(lng))

---------------------------------------------------------------------------
(* The community board: a report's verificationCount lives in the hosted  *)
(* store.  handleVote sends increment(+1 / -1), which the store applies   *)
(* atomically to the stored value; each client shows its last snapshot.   *)

\* verificationCount: 1 in TrafficReportModal.handleSubmit
InitialCount == 1

\* const incrementValue = type === 'up' ? 1 : -1
IncrementValue(type) == IF type = "up" THEN 1 ELSE -1

\* A write that would add to the count the voting client last saw.
WriteFromView(count, seen, by) == Num(seen.n + by)

\* increment(by), applied by the store to the stored count.
ApplyIncrement(count, seen, by) == Num(count.n + by)

\* verificationCount: data.verificationCount || 0
SnapshotCount(count) == Or(count, Num(0))

---------------------------------------------------------------------------
(* The replies to planDayItinerary, the coordinates handed to the render  *)
(* guard, and the clients of the community board that the model explores. *)

MaxCalls == 3    \* most function calls in one reply
MaxVotes == 3    \* most votes cast on the report
NumClients == 2  \* clients of the community board

FunctionCall(name, args) == [name |-> name, args |-> args]

\* The name of the record of the i-th function call.
StopName(i) == Str(<<"stop">> \o NatDigits(i))

LocationArgs(i, lat, lng, sequence) ==
    ObjFrom(<<"name", "description", "lat", "lng", "sequence">>,
            <<StopName(i), Str(<<"visit">>), lat, lng, sequence>>)

LineArgs(i, start, end) ==
    ObjFrom(<<"name", "start", "end">>, <<StopName(i), start, end>>)

CallTemplates ==
    { "seq-1", "seq1", "seq2", "noSeq", "textCoord", "badLat", "noDescription",
      "nullArgs", "line", "lineNoEnd", "lineBadStart", "lineOutEnd" }

\* The function call of a template at position i of the reply.
CallAt(template, i) ==
    CASE template = "seq-1" ->
            FunctionCall("location", LocationArgs(i, Num(20), Num(85), Num(-1)))
      [] template = "seq1" ->
            FunctionCall("location", LocationArgs(i, Num(20), Num(85), Num(1)))
      [] template = "seq2" ->
            FunctionCall("location", LocationArgs(i, Num(21), Num(86), Num(2)))
      [] template = "noSeq" ->
            FunctionCall("location",
                ObjFrom(<<"name", "description", "lat", "lng", "time">>,
                        <<StopName(i), Str(<<"visit">>), Num(20), Num(85),
                          Str(<<"0", "9", ":", "0", "0">>)>>))
      [] template = "textCoord" ->
            FunctionCall("location",
                LocationArgs(i, Str(<<"2", "0">>), Str(<<"8", "5">>), Str(<<"1">>)))
      [] template = "badLat" ->
            FunctionCall("location", LocationArgs(i, Str(<<"x">>), Num(85), Num(1)))
      [] template = "noDescription" ->
            FunctionCall("location",
                ObjFrom(<<"name", "lat", "lng", "sequence">>,
                        <<StopName(i), Num(20), Num(85), Num(2)>>))
      [] template = "nullArgs" -> FunctionCall("location", Null)
      [] template = "line" -> FunctionCall("line", LineArgs(i, cOk, cOk2))
      [] template = "lineNoEnd" ->
            FunctionCall("line", ObjFrom(<<"name", "start">>, <<StopName(i), cOk>>))
      [] template = "lineBadStart" -> FunctionCall("line", LineArgs(i, cBad, cOk2))
      [] OTHER -> FunctionCall("line", LineArgs(i, cOk, cOut))

CallLists ==
    UNION {{[i \in 1..k |-> CallAt(ts[i], i)] : ts \in [1..k -> CallTemplates]} :
              k \in 0..MaxCalls}

TextPart(s) == Obj1("text", Str(s))

PartsPool ==
    { <<>>, <<TextPart(<<"plan">>)>>,
      <<Obj1("functionCall", Obj(<<>>)), TextPart(<<"a">>), TextPart(<<>>), TextPart(<<"b">>)>> }

DayResponses ==
    {[kind |-> "error"]}
    \cup {[kind |-> "ok", functionCalls |-> Arr(cs), parts |-> <<TextPart(<<"plan">>)>>] :
            cs \in CallLists}
    \cup {[kind |-> "ok", functionCalls |-> fcs, parts |-> p] :
            fcs \in {Undef, Arr(<<>>), Arr(<<CallAt("line", 1), CallAt("lineNoEnd", 2)>>),
                     Arr(<<FunctionCall("other", LocationArgs(1, Num(20), Num(85), Num(1)))>>)},
            p \in PartsPool}

\* Values handed to the render guard as latitude and as longitude.
MapLats ==
    {Num(n) : n \in Lats} \cup {Num(20), Str(<<"2", "0">>), Str(<<"x">>), Undef, Null}

MapLngs == {Num(n) : n \in Lngs} \cup {Num(85), Str(<<"8", "5">>), Undef, Null}

Clients == 1..NumClients

---------------------------------------------------------------------------
(* The state machine.  A session exercises one component: a reply to      *)
(* planRoute is pending (pc = "idle") and one of its three copies handles *)
(* it (pc = "done"); a reply to planDayItinerary is pending and one of    *)
(* its two copies handles it; a coordinate is handed to one of the three  *)
(* render guards; or clients vote on a report of the community board; or  *)
(* one component of the user interface runs: a validator is called on a   *)
(* value, the route planner, startChat, the chat bot, the campus context   *)
(* of the manual location, or the fetch of the local updates.             *)
(* The components share no state; the ones not exercised are "off".       *)

NoResult == [text |-> Undef]

NoCoord == [lat |-> Undef, lng |-> Undef]

RouteOff ==
    /\ pc = "off"
    /\ response = [kind |-> "none"]
    /\ rawText = <<>>
    /\ impl = "none"
    /\ result = NoResult

DayOff ==
    /\ dayPc = "off"
    /\ dayResponse = [kind |-> "none"]
    /\ dayImpl = "none"
    /\ dayResult = NoResult

MapOff ==
    /\ mapPc = "off"
    /\ coord = NoCoord
    /\ mapImpl = "none"
    /\ plotted = FALSE

BoardOff ==
    /\ boardPc = "off"
    /\ stored = Undef
    /\ pending = [c \in Clients |-> <<>>]
    /\ cast = [up |-> 0, down |-> 0]
    /\ view = [c \in Clients |-> Undef]

\* Bounds of the user interface components.
MaxSteps == 2        \* most steps in a planned or saved route
MaxSaved == 1        \* most saved plans
NumConsumers == 2    \* components that call startChat
MaxHandles == 3      \* most chat handles startChat creates
MaxSends == 2        \* most messages the user sends to the chat bot
MaxChunks == 2       \* most chunks of a streamed reply
MaxChecks == 3       \* most campus checks the app sends
MaxFetches == 3      \* most fetches of the local updates

Consumers == 1..NumConsumers
Languages == {"en", "or"}

NoArgs == [x |-> Undef]
NoHeld == [kind |-> "null"]
NoRequest == [kind |-> "none"]
NoCall == [language |-> "none", consumer |-> 0]
NoLocation == "null"
NoChecks == [pending |-> <<>>, issued |-> 0, latest |-> "none"]

ProbeOff ==
    /\ probePc = "off"
    /\ probeFn = "none"
    /\ probeArgs = NoArgs
    /\ probeOut = Undef

PlannerOff ==
    /\ planPc = "off"
    /\ planner = "none"
    /\ mode = "route"
    /\ held = NoHeld
    /\ loading = FALSE
    /\ currentStepIndex = 0
    /\ inflight = NoRequest
    /\ savedItems = <<>>
    /\ lastEvent = "none"

SessionOff ==
    /\ chatPc = "off"
    /\ chatInstance = 0
    /\ currentChatLanguage = "en"
    /\ handles = 0
    /\ chatRef = [c \in Consumers |-> 0]
    /\ lastCall = NoCall

BotOff ==
    /\ botPc = "off"
    /\ botLanguage = "en"
    /\ messages = <<>>
    /\ botLoading = FALSE
    /\ streams = {}

AppOff ==
    /\ appPc = "off"
    /\ manualLocation = NoLocation
    /\ isScbContext = TRUE
    /\ checks = NoChecks

FeedOff ==
    /\ feedPc = "off"
    /\ deps = "none"
    /\ updates = 0
    /\ feedLoading = TRUE
    /\ requests = {}
    /\ issued = 0

UiOff == ProbeOff /\ PlannerOff /\ SessionOff /\ BotOff /\ AppOff /\ FeedOff

RouteInit ==
    /\ pc = "idle"
    /\ response \in Responses
    /\ rawText = TextOf(response)
    /\ impl = "none"
    /\ result = NoResult
    /\ DayOff /\ MapOff /\ BoardOff /\ UiOff

DayInit ==
    /\ dayPc = "idle"
    /\ dayResponse \in DayResponses
    /\ dayImpl = "none"
    /\ dayResult = NoResult
    /\ RouteOff /\ MapOff /\ BoardOff /\ UiOff

MapInit ==
    /\ mapPc = "idle"
    /\ coord \in [lat : MapLats, lng : MapLngs]
    /\ mapImpl = "none"
    /\ plotted = FALSE
    /\ RouteOff /\ DayOff /\ BoardOff /\ UiOff

\* The board before any report is submitted.
BoardInit ==
    /\ boardPc = "on"
    /\ stored = Undef
    /\ pending = [c \in Clients |-> <<>>]
    /\ cast = [up |-> 0, down |-> 0]
    /\ view = [c \in Clients |-> Undef]
    /\ RouteOff /\ DayOff /\ MapOff /\ UiOff


PlanRouteGuards ==
    /\ pc = "idle"
    /\ pc' = "done"
    /\ impl' = "guards"
    /\ result' = IF response.kind = "error" THEN RouteFallback ELSE planRouteGuards(rawText)
    /\ UNCHANGED <<response, rawText>>
    /\ UNCHANGED <<dayVars, mapVars, boardVars, uiVars>>

PlanRouteStrict ==
    /\ pc = "idle"
    /\ pc' = "done"
    /\ impl' = "strict"
    /\ result' = IF response.kind = "error" THEN RouteFallback ELSE planRouteStrict(rawText)
    /\ UNCHANGED <<response, rawText>>
    /\ UNCHANGED <<dayVars, mapVars, boardVars, uiVars>>

PlanRouteService ==
    /\ pc = "idle"
    /\ pc' = "done"
    /\ impl' = "service"
    /\ result' = IF response.kind = "error" THEN ServiceFallback
                 ELSE planRouteService(rawText)
    /\ UNCHANGED <<response, rawText>>
    /\ UNCHANGED <<dayVars, mapVars, boardVars, uiVars>>

PlanDayItineraryGuards ==
    /\ dayPc = "idle"
    /\ dayPc' = "done"
    /\ dayImpl' = "guards"
    /\ dayResult' = IF dayResponse.kind = "error" THEN DayThrown
                    ELSE planDayItineraryGuards(dayResponse)
    /\ UNCHANGED dayResponse
    /\ UNCHANGED <<routeVars, mapVars, boardVars, uiVars>>

PlanDayItineraryStrict ==
    /\ dayPc = "idle"
    /\ dayPc' = "done"
    /\ dayImpl' = "strict"
    /\ dayResult' = IF dayResponse.kind = "error" THEN DayThrown
                    ELSE planDayItineraryStrict(dayResponse)
    /\ UNCHANGED dayResponse
    /\ UNCHANGED <<routeVars, mapVars, boardVars, uiVars>>

RenderMap ==
    /\ mapPc = "idle"
    /\ mapPc' = "done"
    /\ mapImpl' = "map"
    /\ plotted' = isValidCoord(coord.lat, coord.lng)
    /\ UNCHANGED coord
    /\ UNCHANGED <<routeVars, dayVars, boardVars, uiVars>>

RenderHook ==
    /\ mapPc = "idle"
    /\ mapPc' = "done"
    /\ mapImpl' = "hook"
    /\ plotted' = isValidCoordHook(coord.lat, coord.lng)
    /\ UNCHANGED coord
    /\ UNCHANGED <<routeVars, dayVars, boardVars, uiVars>>

RenderBounded ==
    /\ mapPc = "idle"
    /\ mapPc' = "done"
    /\ mapImpl' = "bounded"
    /\ plotted' = isValidCoordBounded(coord.lat, coord.lng)
    /\ UNCHANGED coord
    /\ UNCHANGED <<routeVars, dayVars, boardVars, uiVars>>

\* TrafficReportModal.handleSubmit: addDoc with verificationCount 1.
HandleSubmit ==
    /\ boardPc = "on"
    /\ stored = Undef
    /\ stored' = Num(InitialCount)
    /\ UNCHANGED <<boardPc, pending, cast, view>>
    /\ UNCHANGED <<routeVars, dayVars, mapVars, uiVars>>

\* The onSnapshot callback of client c.
OnSnapshot(c) ==
    /\ boardPc = "on"
    /\ stored # Undef
    /\ view' = [view EXCEPT ![c] = SnapshotCount(stored)]
    /\ UNCHANGED <<boardPc, stored, pending, cast>>
    /\ UNCHANGED <<routeVars, dayVars, mapVars, uiVars>>

\* handleVote of client c on the report it shows: the update is sent.
HandleVote(c, type) ==
    /\ boardPc = "on"
    /\ view[c] # Undef
    /\ cast.up + cast.down < MaxVotes
    /\ cast' = [cast EXCEPT ![type] = @ + 1]
    /\ pending' = [pending EXCEPT ![c] = Append(@, [type |-> type, seen |-> view[c]])]
    /\ UNCHANGED <<boardPc, stored, view>>
    /\ UNCHANGED <<routeVars, dayVars, mapVars, uiVars>>

\* The store applies the oldest update of client c that is in flight; the
\* updates of different clients arrive in any order.
StoreApplies(c) ==
    /\ boardPc = "on"
    /\ pending[c] # <<>>
    /\ pending' = [pending EXCEPT ![c] = Tail(@)]
    /\ stored' = ApplyIncrement(stored, Head(pending[c]).seen,
                                IncrementValue(Head(pending[c]).type))
    /\ UNCHANGED <<boardPc, cast, view>>
    /\ UNCHANGED <<routeVars, dayVars, mapVars, uiVars>>

---------------------------------------------------------------------------
(* A validator called on one value: isRouteCoordinate of                   *)
(* src/unnamed/part_000, validateCoord of src/services/geminiService.ts    *)
(* and of src/unnamed/part_011.                                            *)

\* Values handed to isRouteCoordinate.
GuardInputs ==
    { Null, Undef, NaN, Num(0), Num(5), Str(<<>>), Str(<<"x">>), Bool(FALSE), Bool(TRUE),
      Arr(<<>>), Obj(<<>>), cOk, cZero, cOut, cText,
      Obj1("lat", Num(20)), Obj2("lat", NaN, "lng", Num(85)),
      Obj2("lat", Num(20), "lng", Null) }

\* Values handed to validateCoord as lat and as lng.
CoordInputs ==
    { Num(20), Num(0), Num(MaxAbsLat + 1), Str(<<"2", "0">>), Str(<<>>), Str(<<" ">>),
      Str(<<"x">>), Null, Undef, NaN, Bool(TRUE), Bool(FALSE), Arr(<<>>),
      Arr(<<Num(5)>>), Obj(<<>>) }

ProbeInit ==
    /\ probePc = "idle"
    /\ probeFn = "none"
    /\ probeArgs \in {[x |-> v] : v \in GuardInputs}
                     \cup {[lat |-> a, lng |-> b] : a \in CoordInputs, b \in CoordInputs}
    /\ probeOut = Undef
    /\ RouteOff /\ DayOff /\ MapOff /\ BoardOff
    /\ PlannerOff /\ SessionOff /\ BotOff /\ AppOff /\ FeedOff

CallIsRouteCoordinate ==
    /\ probePc = "idle"
    /\ "x" \in DOMAIN probeArgs
    /\ probePc' = "done"
    /\ probeFn' = "isRouteCoordinate"
    /\ probeOut' = isRouteCoordinate(probeArgs.x)
    /\ UNCHANGED probeArgs
    /\ UNCHANGED <<coreVars, plannerVars, sessionVars, botVars, appVars, feedVars>>

\* validateCoord of src/services/geminiService.ts
CallValidateCoord ==
    /\ probePc = "idle"
    /\ "lat" \in DOMAIN probeArgs
    /\ probePc' = "done"
    /\ probeFn' = "validateCoord"
    /\ probeOut' = validateCoord(probeArgs.lat, probeArgs.lng)
    /\ UNCHANGED probeArgs
    /\ UNCHANGED <<coreVars, plannerVars, sessionVars, botVars, appVars, feedVars>>

\* validateCoord of src/unnamed/part_011, the same word for word
CallValidateCoordStrict ==
    /\ probePc = "idle"
    /\ "lat" \in DOMAIN probeArgs
    /\ probePc' = "done"
    /\ probeFn' = "validateCoordStrict"
    /\ probeOut' = validateCoord(probeArgs.lat, probeArgs.lng)
    /\ UNCHANGED probeArgs
    /\ UNCHANGED <<coreVars, plannerVars, sessionVars, botVars, appVars, feedVars>>

---------------------------------------------------------------------------
(* The route planner.  RoutePlanner of src/components/Map.tsx has the two  *)
(* modes, the saved plans and the step navigation ("tabs"); RoutePlanner  *)
(* of src/components/Home.tsx plans routes only ("sheet").  A result is    *)
(* held with the mode of the request that produced it and the number of   *)
(* its steps.  The request is awaited: other handlers run before the      *)
(* response arrives.                                                       *)

Modes == {"route", "dayPlan"}

Plan(origin, n) == [kind |-> "plan", origin |-> origin, steps |-> n]

Request(m) == [kind |-> "request", mode |-> m]

Min(a, b) == IF a < b THEN a ELSE b
Max(a, b) == IF a > b THEN a ELSE b

\* A handler that would leave the held result as it is.
StaleResult(previous) == previous

\* setResult(null)
ClearedResult(previous) == NoHeld

\* A handler that would leave the step index as it is.
SameStepIndex(i) == i

\* setCurrentStepIndex(0)
FirstStepIndex(i) == 0

\* setResult({...plan, locations: [], ...}) / setResult({..., steps: [], ...plan})
ResultOf(m, n) == Plan(m, IF m = "route" THEN n ELSE 0)

PlannerInit ==
    /\ planPc = "on"
    /\ planner \in {"tabs", "sheet"}
    /\ mode = "route"
    /\ held = NoHeld
    /\ loading = FALSE
    /\ currentStepIndex = 0
    /\ inflight = NoRequest
    /\ savedItems = <<>>
    /\ lastEvent = "none"
    /\ RouteOff /\ DayOff /\ MapOff /\ BoardOff
    /\ ProbeOff /\ SessionOff /\ BotOff /\ AppOff /\ FeedOff

\* handleSubmit of Map.tsx.  The form is rendered while no result is held
\* and its button is disabled while loading; blank: the input is empty.
PlannerSubmit(blank) ==
    /\ planPc = "on" /\ planner = "tabs"
    /\ held = NoHeld /\ ~loading
    /\ held' = ClearedResult(held)
    /\ currentStepIndex' = FirstStepIndex(currentStepIndex)
    /\ loading' = ~blank
    /\ inflight' = IF blank THEN inflight ELSE Request(mode)
    /\ lastEvent' = "submit"
    /\ UNCHANGED <<planPc, planner, mode, savedItems>>
    /\ UNCHANGED <<coreVars, probeVars, sessionVars, botVars, appVars, feedVars>>

\* The awaited planRoute / planDayItinerary settles: with a plan of n steps,
\* or (planDayItinerary only) with an error.
PlannerRespond(n, failed) ==
    /\ planPc = "on" /\ planner = "tabs"
    /\ inflight.kind = "request"
    /\ failed => inflight.mode = "dayPlan"
    /\ held' = IF failed THEN held ELSE ResultOf(inflight.mode, n)
    /\ loading' = FALSE
    /\ inflight' = NoRequest
    /\ lastEvent' = "respond"
    /\ UNCHANGED <<planPc, planner, mode, currentStepIndex, savedItems>>
    /\ UNCHANGED <<coreVars, probeVars, sessionVars, botVars, appVars, feedVars>>

\* The mode buttons: setMode(m); setResult(null).
PlannerSetMode(m) ==
    /\ planPc = "on" /\ planner = "tabs"
    /\ mode' = m
    /\ held' = ClearedResult(held)
    /\ lastEvent' = "mode"
    /\ UNCHANGED <<planPc, planner, loading, currentStepIndex, inflight, savedItems>>
    /\ UNCHANGED <<coreVars, probeVars, sessionVars, botVars, appVars, feedVars>>

\* The plan-new button under a result.
PlannerPlanNew ==
    /\ planPc = "on" /\ planner = "tabs"
    /\ held # NoHeld
    /\ held' = ClearedResult(held)
    /\ lastEvent' = "reset"
    /\ UNCHANGED <<planPc, planner, mode, loading, currentStepIndex, inflight, savedItems>>
    /\ UNCHANGED <<coreVars, probeVars, sessionVars, botVars, appVars, feedVars>>

\* The start-over button under a route without steps.
PlannerStartOver ==
    /\ planPc = "on" /\ planner = "tabs"
    /\ held # NoHeld /\ mode = "route" /\ held.steps = 0 /\ ~loading
    /\ held' = ClearedResult(held)
    /\ lastEvent' = "reset"
    /\ UNCHANGED <<planPc, planner, mode, loading, currentStepIndex, inflight, savedItems>>
    /\ UNCHANGED <<coreVars, probeVars, sessionVars, botVars, appVars, feedVars>>

\* handleSave: the held result is saved under the selected mode.
PlannerSave ==
    /\ planPc = "on" /\ planner = "tabs"
    /\ held # NoHeld
    /\ Len(savedItems) < MaxSaved
    /\ savedItems' = <<[mode |-> mode, result |-> held]>> \o savedItems
    /\ lastEvent' = "save"
    /\ UNCHANGED <<planPc, planner, mode, held, loading, currentStepIndex, inflight>>
    /\ UNCHANGED <<coreVars, probeVars, sessionVars, botVars, appVars, feedVars>>

\* handleLoad: the list is rendered while no result is held and not loading.
PlannerLoad(i) ==
    /\ planPc = "on" /\ planner = "tabs"
    /\ held = NoHeld /\ ~loading
    /\ i \in 1..Len(savedItems)
    /\ mode' = savedItems[i].mode
    /\ held' = savedItems[i].result
    /\ currentStepIndex' = FirstStepIndex(currentStepIndex)
    /\ lastEvent' = "load"
    /\ UNCHANGED <<planPc, planner, loading, inflight, savedItems>>
    /\ UNCHANGED <<coreVars, probeVars, sessionVars, botVars, appVars, feedVars>>

\* The step navigation, rendered for a route with steps.
PlannerNext ==
    /\ planPc = "on" /\ planner = "tabs"
    /\ held # NoHeld /\ mode = "route" /\ held.steps > 0
    /\ currentStepIndex # held.steps - 1
    /\ currentStepIndex' = Min(held.steps - 1, currentStepIndex + 1)
    /\ lastEvent' = "next"
    /\ UNCHANGED <<planPc, planner, mode, held, loading, inflight, savedItems>>
    /\ UNCHANGED <<coreVars, probeVars, sessionVars, botVars, appVars, feedVars>>

PlannerPrev ==
    /\ planPc = "on" /\ planner = "tabs"
    /\ held # NoHeld /\ mode = "route" /\ held.steps > 0
    /\ currentStepIndex # 0
    /\ currentStepIndex' = Max(0, currentStepIndex - 1)
    /\ lastEvent' = "prev"
    /\ UNCHANGED <<planPc, planner, mode, held, loading, inflight, savedItems>>
    /\ UNCHANGED <<coreVars, probeVars, sessionVars, botVars, appVars, feedVars>>

\* handleSubmit of Home.tsx: if (!destination.trim() || loading) return.
SheetSubmit ==
    /\ planPc = "on" /\ planner = "sheet"
    /\ held = NoHeld /\ ~loading
    /\ loading' = TRUE
    /\ inflight' = Request("route")
    /\ lastEvent' = "submit"
    /\ UNCHANGED <<planPc, planner, mode, held, currentStepIndex, savedItems>>
    /\ UNCHANGED <<coreVars, probeVars, sessionVars, botVars, appVars, feedVars>>

\* planRoute of the service settles (it catches its errors): setResult(plan).
SheetRespond ==
    /\ planPc = "on" /\ planner = "sheet"
    /\ inflight.kind = "request"
    /\ held' = Plan("route", 0)
    /\ loading' = FALSE
    /\ inflight' = NoRequest
    /\ lastEvent' = "respond"
    /\ UNCHANGED <<planPc, planner, mode, currentStepIndex, savedItems>>
    /\ UNCHANGED <<coreVars, probeVars, sessionVars, botVars, appVars, feedVars>>

\* The reset button of Home.tsx.
SheetReset ==
    /\ planPc = "on" /\ planner = "sheet"
    /\ held # NoHeld
    /\ held' = ClearedResult(held)
    /\ lastEvent' = "reset"
    /\ UNCHANGED <<planPc, planner, mode, loading, currentStepIndex, inflight, savedItems>>
    /\ UNCHANGED <<coreVars, probeVars, sessionVars, botVars, appVars, feedVars>>

---------------------------------------------------------------------------
(* startChat (src/unnamed/part_003 and, word for word, part_011): the      *)
(* module holds one chat handle and the language it was created for.      *)
(* Handles are numbered in the order of their creation, 0 is null.        *)
(* lastCall records the last call: its language and consumer, those of    *)
(* the call before, the handle held before and the handle returned.       *)

\* A condition that would reuse the handle whatever the language.
NeedsNewWhenNone(instance, current, language) == instance = 0

\* if (!chatInstance || currentChatLanguage !== language)
NeedsNew(instance, current, language) == instance = 0 \/ current # language

SessionInit ==
    /\ chatPc = "on"
    /\ chatInstance = 0
    /\ currentChatLanguage = "en"
    /\ handles = 0
    /\ chatRef = [c \in Consumers |-> 0]
    /\ lastCall = NoCall
    /\ RouteOff /\ DayOff /\ MapOff /\ BoardOff
    /\ ProbeOff /\ PlannerOff /\ BotOff /\ AppOff /\ FeedOff

\* The call record of consumer c asking for `language`, returning `handle`.
CallRecord(c, language, handle) ==
    [language |-> language, consumer |-> c,
     previous |-> lastCall.language, prevConsumer |-> lastCall.consumer,
     old |-> chatInstance, returned |-> handle]

\* The branch that creates a handle.
StartNew(c, language) ==
    /\ handles < MaxHandles
    /\ handles' = handles + 1
    /\ chatInstance' = handles + 1
    /\ currentChatLanguage' = language
    /\ chatRef' = [chatRef EXCEPT ![c] = handles + 1]
    /\ lastCall' = CallRecord(c, language, handles + 1)

\* The branch that returns the handle held.
StartReused(c, language) ==
    /\ chatRef' = [chatRef EXCEPT ![c] = chatInstance]
    /\ lastCall' = CallRecord(c, language, chatInstance)
    /\ UNCHANGED <<handles, chatInstance, currentChatLanguage>>

\* chatRef.current = startChat(language), in consumer c
StartChat(c, language) ==
    /\ chatPc = "on"
    /\ IF NeedsNew(chatInstance, currentChatLanguage, language)
       THEN StartNew(c, language)
       ELSE StartReused(c, language)
    /\ UNCHANGED chatPc
    /\ UNCHANGED <<coreVars, probeVars, plannerVars, botVars, appVars, feedVars>>

---------------------------------------------------------------------------
(* ChatBot (src/components/ChatBot.tsx and src/unnamed/part_006).  A      *)
(* message has a sender and a text; `slot` names what it was appended     *)
(* for (the welcome, the k-th message of the user, the reply or the       *)
(* error of the k-th send).  A text is the welcome in a language, the     *)
(* k-th message of the user, an error, or the first n chunks of the       *)
(* reply to the k-th send.  A stream is a send that has not finished.     *)

Text(kind, language, send, chunks) ==
    [kind |-> kind, language |-> language, send |-> send, chunks |-> chunks]

Slot(kind, send) == [kind |-> kind, send |-> send]

Message(sender, text, slot) == [sender |-> sender, text |-> text, slot |-> slot]

\* setMessages([{ sender: 'bot', text: t.chatWelcome }])
WelcomeOnly(language) ==
    <<Message("bot", Text("welcome", language, 0, 0), Slot("welcome", 0))>>

\* newMessages[newMessages.length - 1].text = botResponse
SetLastText(msgs, text) == [msgs EXCEPT ![Len(msgs)].text = text]

BotInit ==
    /\ botPc = "on"
    /\ botLanguage \in Languages
    /\ messages = WelcomeOnly(botLanguage)
    /\ botLoading = FALSE
    /\ streams = {}
    /\ RouteOff /\ DayOff /\ MapOff /\ BoardOff
    /\ ProbeOff /\ PlannerOff /\ SessionOff /\ AppOff /\ FeedOff

\* The effect of [language]: the chat is started again and the list reset.
LanguageChange ==
    /\ botPc = "on"
    /\ botLanguage' = CHOOSE l \in Languages : l # botLanguage
    /\ messages' = WelcomeOnly(botLanguage')
    /\ UNCHANGED <<botPc, botLoading, streams>>
    /\ UNCHANGED <<coreVars, probeVars, plannerVars, sessionVars, appVars, feedVars>>

\* handleSend up to its first await; k numbers the send.
HandleSend(k) ==
    /\ botPc = "on"
    /\ ~botLoading
    /\ k \in 1..MaxSends
    /\ \A i \in 1..Len(messages) : messages[i].slot.send < k
    /\ k = 1 \/ \E i \in 1..Len(messages) : messages[i].slot.send = k - 1
    /\ messages' = Append(messages, Message("user", Text("user", botLanguage, k, 0),
                                            Slot("user", k)))
    /\ botLoading' = TRUE
    /\ streams' = streams \cup {[send |-> k, stage |-> "awaiting", got |-> 0]}
    /\ UNCHANGED <<botPc, botLanguage>>
    /\ UNCHANGED <<coreVars, probeVars, plannerVars, sessionVars, appVars, feedVars>>

\* sendMessageToChat resolves: the empty bot message is appended.
SendResolves(s) ==
    /\ botPc = "on"
    /\ s \in streams /\ s.stage = "awaiting"
    /\ messages' = Append(messages, Message("bot", Text("reply", botLanguage, s.send, 0),
                                            Slot("reply", s.send)))
    /\ streams' = (streams \ {s}) \cup {[s EXCEPT !.stage = "streaming"]}
    /\ UNCHANGED <<botPc, botLanguage, botLoading>>
    /\ UNCHANGED <<coreVars, probeVars, plannerVars, sessionVars, appVars, feedVars>>

\* A chunk arrives: botResponse += chunk.text, written to the last message.
ChunkArrives(s) ==
    /\ botPc = "on"
    /\ s \in streams /\ s.stage = "streaming" /\ s.got < MaxChunks
    /\ messages' = SetLastText(messages, Text("reply", botLanguage, s.send, s.got + 1))
    /\ streams' = (streams \ {s}) \cup {[s EXCEPT !.got = s.got + 1]}
    /\ UNCHANGED <<botPc, botLanguage, botLoading>>
    /\ UNCHANGED <<coreVars, probeVars, plannerVars, sessionVars, appVars, feedVars>>

\* The stream ends: finally { setLoading(false) }.
StreamEnds(s) ==
    /\ botPc = "on"
    /\ s \in streams /\ s.stage = "streaming"
    /\ streams' = streams \ {s}
    /\ botLoading' = FALSE
    /\ UNCHANGED <<botPc, botLanguage, messages>>
    /\ UNCHANGED <<coreVars, probeVars, plannerVars, sessionVars, appVars, feedVars>>

\* The send or the stream fails: the catch block appends an error message.
SendFails(s) ==
    /\ botPc = "on"
    /\ s \in streams
    /\ messages' = Append(messages, Message("bot", Text("error", botLanguage, s.send, 0),
                                            Slot("error", s.send)))
    /\ streams' = streams \ {s}
    /\ botLoading' = FALSE
    /\ UNCHANGED <<botPc, botLanguage>>
    /\ UNCHANGED <<coreVars, probeVars, plannerVars, sessionVars, appVars, feedVars>>

---------------------------------------------------------------------------
(* The campus context of App (src/App.tsx, src/unnamed/part_002):          *)
(* handleSaveManualLocation awaits isScbCampusLocation and then sets       *)
(* isScbContext.  `checks` holds the checks in flight in the order they   *)
(* were sent, how many were sent, and the answer to the last one sent.    *)

Places == {"ward", "bazaar"}

\* The model's answer: text.includes("yes").
OnCampus(place) == place = "ward"

\* isScbCampusLocation: the answer, or true when the request fails.
CheckResult(place, failed) == IF failed THEN TRUE ELSE OnCampus(place)

RemoveAt(s, i) == SubSeq(s, 1, i - 1) \o SubSeq(s, i + 1, Len(s))

AppInit ==
    /\ appPc = "on"
    /\ manualLocation = NoLocation
    /\ isScbContext = TRUE
    /\ checks = NoChecks
    /\ RouteOff /\ DayOff /\ MapOff /\ BoardOff
    /\ ProbeOff /\ PlannerOff /\ SessionOff /\ BotOff /\ FeedOff

\* handleSaveManualLocation with a text that trims to the empty string.
ClearManualLocation ==
    /\ appPc = "on"
    /\ manualLocation' = NoLocation
    /\ isScbContext' = TRUE
    /\ UNCHANGED <<appPc, checks>>
    /\ UNCHANGED <<coreVars, probeVars, plannerVars, sessionVars, botVars, feedVars>>

\* handleSaveManualLocation with a place, up to its await.
SaveManualLocation(place) ==
    /\ appPc = "on"
    /\ checks.issued < MaxChecks
    /\ manualLocation' = place
    /\ checks' = [pending |-> Append(checks.pending,
                                     [place |-> place, id |-> checks.issued + 1]),
                  issued |-> checks.issued + 1,
                  latest |-> "pending"]
    /\ UNCHANGED <<appPc, isScbContext>>
    /\ UNCHANGED <<coreVars, probeVars, plannerVars, sessionVars, botVars, feedVars>>

\* The i-th check in flight settles: setIsScbContext(isScb).
CheckSettles(i, failed) ==
    /\ appPc = "on"
    /\ i \in 1..Len(checks.pending)
    /\ isScbContext' = CheckResult(checks.pending[i].place, failed)
    /\ checks' = [pending |-> RemoveAt(checks.pending, i),
                  issued |-> checks.issued,
                  latest |-> IF checks.pending[i].id = checks.issued
                             THEN IF CheckResult(checks.pending[i].place, failed)
                                  THEN "yes" ELSE "no"
                             ELSE checks.latest]
    /\ UNCHANGED <<appPc, manualLocation>>
    /\ UNCHANGED <<coreVars, probeVars, plannerVars, sessionVars, botVars, feedVars>>

---------------------------------------------------------------------------
(* The fetch of the local updates (src/components/LocalUpdates.tsx,       *)
(* src/unnamed/part_007): an effect of the location, the manual location  *)
(* and the language sends a request and shows its result when it settles. *)
(* Requests are numbered in the order they are sent; `updates` is the     *)
(* number of the request whose result is shown, 0 for none.               *)

Dependencies == {"location", "manualLocation", "language"}

FeedInit ==
    /\ feedPc = "on"
    /\ deps = "mount"
    /\ updates = 0
    /\ feedLoading = TRUE
    /\ requests = {1}
    /\ issued = 1
    /\ RouteOff /\ DayOff /\ MapOff /\ BoardOff
    /\ ProbeOff /\ PlannerOff /\ SessionOff /\ BotOff /\ AppOff

\* A dependency changes: fetchUpdates runs again, setLoading(true).
DependencyChanges(d) ==
    /\ feedPc = "on"
    /\ issued < MaxFetches
    /\ deps' = d
    /\ issued' = issued + 1
    /\ requests' = requests \cup {issued + 1}
    /\ feedLoading' = TRUE
    /\ UNCHANGED <<feedPc, updates>>
    /\ UNCHANGED <<coreVars, probeVars, plannerVars, sessionVars, botVars, appVars>>

\* getLocalUpdates of request r settles: setUpdates(result); setLoading(false).
FetchSettles(r) ==
    /\ feedPc = "on"
    /\ r \in requests
    /\ updates' = r
    /\ feedLoading' = FALSE
    /\ requests' = requests \ {r}
    /\ UNCHANGED <<feedPc, deps, issued>>
    /\ UNCHANGED <<coreVars, probeVars, plannerVars, sessionVars, botVars, appVars>>

Init ==
    \/ RouteInit \/ DayInit \/ MapInit \/ BoardInit
    \/ ProbeInit \/ PlannerInit \/ SessionInit \/ BotInit \/ AppInit \/ FeedInit

Next ==
    \/ PlanRouteGuards \/ PlanRouteStrict \/ PlanRouteService
    \/ PlanDayItineraryGuards \/ PlanDayItineraryStrict
    \/ RenderMap \/ RenderHook \/ RenderBounded
    \/ HandleSubmit
    \/ \E c \in Clients : OnSnapshot(c)
    \/ \E c \in Clients, type \in {"up", "down"} : HandleVote(c, type)
    \/ \E c \in Clients : StoreApplies(c)
    \/ CallIsRouteCoordinate \/ CallValidateCoord \/ CallValidateCoordStrict
    \/ \E blank \in BOOLEAN : PlannerSubmit(blank)
    \/ \E n \in 0..MaxSteps, failed \in BOOLEAN : PlannerRespond(n, failed)
    \/ \E m \in Modes : PlannerSetMode(m)
    \/ PlannerPlanNew \/ PlannerStartOver \/ PlannerSave
    \/ \E i \in 1..MaxSaved : PlannerLoad(i)
    \/ PlannerNext \/ PlannerPrev
    \/ SheetSubmit \/ SheetRespond \/ SheetReset
    \/ \E c \in Consumers, language \in Languages : StartChat(c, language)
    \/ LanguageChange
    \/ \E k \in 1..MaxSends : HandleSend(k)
    \/ \E s \in streams : SendResolves(s)
    \/ \E s \in streams : ChunkArrives(s)
    \/ \E s \in streams : StreamEnds(s)
    \/ \E s \in streams : SendFails(s)
    \/ ClearManualLocation
    \/ \E place \in Places : SaveManualLocation(place)
    \/ \E i \in 1..MaxChecks, failed \in BOOLEAN : CheckSettles(i, failed)
    \/ \E d \in Dependencies : DependencyChanges(d)
    \/ \E r \in requests : FetchSettles(r)

Spec == Init /\ [][Next]_vars

---------------------------------------------------------------------------
(* Vocabulary of the properties.                                           *)

\* planRoute has returned the result of a reply (the request did not fail).
Done == pc = "done" /\ response.kind # "error"

\* What JSON.parse makes of the interior of the first fenced block of raw.
Parsed(raw) == JsonParse(RegexMatch(raw).g1)

\* The reply was built around payload O, and planRoute parsed exactly O.
Extracted ==
    /\ response.kind \in {"fenced", "two"}
    /\ Parsed(rawText).ok
    /\ Parsed(rawText).v = response.O

\* The candidate arrays a copy of planRoute reads.
Keys == IF impl = "service" THEN {"landmarks"} ELSE {"steps", "landmarks", "traffic"}

\* The candidate array of the payload under `key`, and the array returned for it.
InArr(key) == IF HasArray(response.O, key) THEN Get(response.O, key).e ELSE <<>>

OutArr(key) ==
    CASE key = "steps" -> result.steps
      [] key = "landmarks" -> result.landmarks
      [] OTHER -> result.trafficSegments

\* No TypeError was thrown inside the try block.
Completed ==
    CASE impl = "guards" -> response.O # Null
      [] impl = "strict" -> response.O # Null /\ SectionsDone(response.O) = 3
      [] OTHER -> ~ServiceThrows(response.O)

\* The type guard of the records under `key`.
Guard(key, x) ==
    CASE key = "steps" -> Truthy(isRouteStep(x))
      [] key = "landmarks" -> Truthy(isLandmark(x))
      [] OTHER -> Truthy(isTrafficSegment(x))

InBounds(c) ==
    Abs(Get(c, "lat").n) <= MaxAbsLat /\ Abs(Get(c, "lng").n) <= MaxAbsLng

AtOrigin(c) == Get(c, "lat") = Num(0) /\ Get(c, "lng") = Num(0)

PathInBounds(path) == \A i \in 1..Len(path.e) : InBounds(path.e[i])

\* Structurally valid: the type guard holds and the coordinates are in range.
Valid(key, x) ==
    /\ Guard(key, x)
    /\ IF key = "landmarks" THEN InBounds(Get(x, "position"))
       ELSE PathInBounds(Get(x, "path"))

\* Valid beyond dispute: moreover the text is not empty and the path is a
\* point (of a step) or a line (of a traffic segment).
ClearlyValid(key, x) ==
    /\ Valid(key, x)
    /\ CASE key = "steps" ->
               Get(x, "description").s # <<>> /\ Len(Get(x, "path").e) >= 1
         [] key = "landmarks" -> Get(x, "name").s # <<>>
         [] OTHER ->
               Get(x, "description").s # <<>> /\ Len(Get(x, "path").e) >= 2

\* Output record y carries the field values of input record x.
SameEntry(key, x, y) ==
    CASE key = "steps" ->
            /\ Get(y, "description") = Get(x, "description")
            /\ Get(y, "path") = Get(x, "path")
      [] key = "landmarks" ->
            /\ Get(y, "name") = Get(x, "name")
            /\ Get(y, "position") = Get(x, "position")
      [] OTHER ->
            /\ Get(y, "level") = Get(x, "level")
            /\ Get(y, "description") = Get(x, "description")
            /\ Get(y, "path") = Get(x, "path")

\* The landmarks of the payload with a name and a numeric position.
PlacedLandmark(x) == Truthy(isLandmark(x)) /\ Get(x, "name").s # <<>>

\* utils/validation's safeJsonParse, its validator being the guard of `key`.
SafeParsed(parsed, key) == IF parsed.ok /\ Guard(key, parsed.v) THEN parsed.v ELSE Null

safeJsonParse(jsonString, key) == SafeParsed(JsonParse(jsonString), key)

\* Two fenced blocks: the interior of the first, where it ends, and the
\* reply without it.
TwoBlocks == response.kind \in {"two", "twobroken"}

FirstInterior == IF response.kind = "two" THEN Stringify(response.O) ELSE response.inner

FirstBlockEnd == Len(response.P) + Len(Fence(FirstInterior))

RestAfterFirst ==
    response.P \o response.mid \o Fence(Stringify(SecondPayload)) \o response.P2

IsSecond(x) ==
    Get(x, "description") = Str(<<"second">>) \/ Get(x, "name") = Str(<<"second">>)

---------------------------------------------------------------------------
(* The properties.                                                         *)

\* C1: in every copy of planRoute, for every candidate array of the parsed
\* payload, each element that is individually valid appears in the returned
\* array, whatever its siblings are (a null or non-object element included).
C1_ValidSiblingsKept ==
    Done /\ Extracted =>
        \A key \in Keys : \A i \in 1..Len(InArr(key)) :
            ClearlyValid(key, InArr(key)[i]) =>
                \E j \in 1..Len(OutArr(key)) :
                    SameEntry(key, InArr(key)[i], OutArr(key)[j])

\* C2: drop-not-fail, in the copies of part_003 and part_011: when an entry
\* of a candidate array fails its type guard, the returned array is strictly
\* shorter than the candidate array and every returned entry satisfies the
\* guard (an invalid entry is dropped, not repaired or defaulted).
C2_DropNotFail ==
    Done /\ Extracted /\ impl \in {"guards", "strict"} =>
        \A key \in Keys :
            (\E i \in 1..Len(InArr(key)) : ~Guard(key, InArr(key)[i])) =>
                /\ Len(OutArr(key)) < Len(InArr(key))
                /\ \A j \in 1..Len(OutArr(key)) : Guard(key, OutArr(key)[j])

\* C3: coordinate bounds at ingestion, in every copy: a named landmark whose
\* numeric position has abs(lat) > 90 or abs(lng) > 180 is not returned; one
\* whose position is within the bounds and not (0, 0) is returned.
C3_CoordinateBounds ==
    Done /\ Extracted /\ Completed =>
        \A i \in 1..Len(InArr("landmarks")) :
            PlacedLandmark(InArr("landmarks")[i]) =>
                /\ ~InBounds(Get(InArr("landmarks")[i], "position")) =>
                      \A j \in 1..Len(result.landmarks) :
                          Get(result.landmarks[j], "position")
                              # Get(InArr("landmarks")[i], "position")
                /\ /\ InBounds(Get(InArr("landmarks")[i], "position"))
                   /\ ~AtOrigin(Get(InArr("landmarks")[i], "position"))
                   => \E j \in 1..Len(result.landmarks) :
                          Get(result.landmarks[j], "position")
                              = Get(InArr("landmarks")[i], "position")

\* C4: in every copy, a landmark of the parsed payload whose position is
\* {lat: 0, lng: 0} is dropped: no returned landmark is at (0, 0).
C4_ZeroCoordinateDropped ==
    Done /\ Extracted =>
        \A j \in 1..Len(result.landmarks) :
            ~AtOrigin(Get(result.landmarks[j], "position"))

\* C5: in the copies that return traffic segments, a segment whose level is
\* not exactly light, moderate or heavy is dropped entirely: no more segments
\* are returned than the payload holds with such a level, and each returned
\* segment has such a level.
C5_InvalidLevelDropped ==
    Done /\ Extracted /\ impl \in {"guards", "strict"} =>
        /\ Len(result.trafficSegments)
              <= Cardinality({i \in 1..Len(InArr("traffic")) :
                                 /\ InArr("traffic")[i] # Null
                                 /\ Get(InArr("traffic")[i], "level").t = "string"
                                 /\ Get(InArr("traffic")[i], "level").s \in TrafficLevels})
        /\ \A j \in 1..Len(result.trafficSegments) :
              /\ Get(result.trafficSegments[j], "level").t = "string"
              /\ Get(result.trafficSegments[j], "level").s \in TrafficLevels

\* C6: fence round trip, in the copy of part_003: the reply
\* P + fence(stringify(O)) + P2 with O an object yields the payload O and
\* the prose trim(P + P2).
C6_FenceRoundTrip ==
    Done /\ impl = "guards" /\ response.kind = "fenced" /\ response.O.t = "object" =>
        /\ Parsed(rawText).ok
        /\ Parsed(rawText).v = response.O
        /\ result.text = Str(Trim(response.P \o response.P2))

\* C7 (as the code has it): for a raw text in which the regex finds no
\* fenced json block, every copy returns the full input unchanged (not
\* trimmed) as the prose, parses no payload, and returns empty arrays.
C7_NoFenceKeepsRawText ==
    Done /\ ~RegexMatch(rawText).found =>
        /\ result.text = Str(rawText)
        /\ ~Parsed(rawText).ok
        /\ \A key \in Keys : OutArr(key) = <<>>

\* C7 as stated: for a raw text with no fenced json block the prose is the
\* full input with the surrounding whitespace trimmed, and the arrays are
\* empty.
C7_NoFenceTrimmed ==
    Done /\ ~RegexMatch(rawText).found =>
        /\ result.text = Str(Trim(rawText))
        /\ \A key \in Keys : OutArr(key) = <<>>

\* C7 witness: a reply without a fence that starts or ends with whitespace
\* has been returned as it came.
C7_Witness ==
    /\ Done
    /\ impl = "guards"
    /\ ~RegexMatch(rawText).found
    /\ Trim(rawText) # rawText
    /\ Trim(rawText) # <<>>
    /\ result.text = Str(rawText)

\* C8: fail open: when a fenced block is found whose interior is no JSON,
\* every copy returns empty arrays and the original full raw text as the
\* prose, as an ordinary result; safeJsonParse yields null for it.
C8_FailOpen ==
    Done /\ RegexMatch(rawText).found /\ RegexMatch(rawText).g1 # <<>>
         /\ ~Parsed(rawText).ok =>
        /\ result.text = Str(rawText)
        /\ \A key \in Keys : OutArr(key) = <<>>
        /\ impl = "service" => result.audioWhisper = Str(<<>>)
        /\ \A key \in {"steps", "landmarks", "traffic"} :
              safeJsonParse(RegexMatch(rawText).g1, key) = Null

\* C8 witness: a reply with prose around a fenced block that is no JSON has
\* been returned whole, untrimmed, with empty arrays.
C8_Witness ==
    /\ Done
    /\ impl = "guards"
    /\ response.kind = "broken"
    /\ response.P = <<" ", "a", "\n">>
    /\ response.P2 = <<"a">>
    /\ ~Parsed(rawText).ok
    /\ result.text = Str(rawText)
    /\ result.steps = <<>>

\* C9: with two fenced json blocks, the match lies in the first block; no
\* returned entry comes from the second block; the prose of the copies of
\* part_003 and part_011 is the raw text or the raw text without the first
\* block (the second block stays in it); and when the first block holds a
\* valid payload, its entries are returned and the first block is removed.
C9_OnlyFirstBlock ==
    Done /\ TwoBlocks =>
        /\ RegexMatch(rawText).found
        /\ RegexMatch(rawText).start = Len(response.P) + 1
        /\ RegexMatch(rawText).end <= FirstBlockEnd
        /\ \A key \in Keys : \A j \in 1..Len(OutArr(key)) : ~IsSecond(OutArr(key)[j])
        /\ impl # "service" =>
              result.text \in {Str(rawText), Str(Trim(RestAfterFirst))}
        /\ impl # "service" /\ response.kind = "two" /\ response.O = ValidPayload =>
              /\ result.text = Str(Trim(RestAfterFirst))
              /\ result.steps = Get(ValidPayload, "steps").e
              /\ result.landmarks = Get(ValidPayload, "landmarks").e
              /\ result.trafficSegments = <<>>

\* C9 witness: a reply with two blocks, the first a valid payload, has been
\* handled: the first block's step is returned and the second block is
\* still in the prose.
C9_Witness ==
    /\ Done
    /\ impl = "strict"
    /\ response.kind = "two"
    /\ response.O = ValidPayload
    /\ response.mid = <<"a">>
    /\ Len(result.steps) = 1
    /\ result.text = Str(Trim(RestAfterFirst))
    /\ result.text # Str(Trim(response.P \o response.mid \o response.P2))

\* C10: in the copies of part_003 and part_011, when every entry of every
\* candidate array is structurally valid, each returned array has the same
\* number of entries as the candidate array, in the same order, with the
\* same field values.
C10_ValidPayloadPreserved ==
    Done /\ Extracted /\ impl \in {"guards", "strict"} =>
        \A key \in Keys :
            (\A i \in 1..Len(InArr(key)) : Valid(key, InArr(key)[i])) =>
                /\ Len(OutArr(key)) = Len(InArr(key))
                /\ \A i \in 1..Len(InArr(key)) :
                      SameEntry(key, InArr(key)[i], OutArr(key)[i])


---------------------------------------------------------------------------
(* Vocabulary of the properties of planDayItinerary.                       *)

\* planDayItinerary has returned the result of a reply.
DayDone == dayPc = "done" /\ dayResponse.kind = "ok"

DayCalls == CallsOf(dayResponse)

\* The position in the reply of the function call a returned record came
\* from (the calls of a reply carry distinct names).
ArrivalOf(rec) == CHOOSE i \in 1..Len(DayCalls) : StopName(i) = Get(rec, "name")

\* The sequence argument of the i-th call, an absent one counting as 0.
ArgSequence(i) ==
    IF Get(DayCalls[i].args, "sequence") = Undef THEN 0
    ELSE ToNumber(Get(DayCalls[i].args, "sequence")).n

ReturnedSequence(j) == ArgSequence(ArrivalOf(dayResult.locations[j]))

\* The i-th call is a location call with text name and description and
\* numeric lat and lng.
WellFormedLocation(i) ==
    /\ IsLocationCall(DayCalls[i])
    /\ isString(Get(DayCalls[i].args, "name"))
    /\ isString(Get(DayCalls[i].args, "description"))
    /\ isNumber(Get(DayCalls[i].args, "lat"))
    /\ isNumber(Get(DayCalls[i].args, "lng"))

\* The location, the line returned for the i-th call, if any.
LocationReturned(i) ==
    \E j \in 1..Len(dayResult.locations) :
        Get(dayResult.locations[j], "name") = StopName(i)

LineReturned(i) ==
    \E j \in 1..Len(dayResult.lines) : Get(dayResult.lines[j], "name") = StopName(i)

\* An end point whose lat and lng are there and coerce to numbers.
NumericEnd(e) ==
    /\ ToNumber(GetOpt(e, "lat")).t = "number"
    /\ ToNumber(GetOpt(e, "lng")).t = "number"

ValidEnd(e) ==
    /\ NumericEnd(e)
    /\ Abs(ToNumber(GetOpt(e, "lat")).n) <= MaxAbsLat
    /\ Abs(ToNumber(GetOpt(e, "lng")).n) <= MaxAbsLng

---------------------------------------------------------------------------
(* The properties of planDayItinerary, of the render guard and of the     *)
(* community board.                                                        *)

\* C11: the locations planDayItinerary returns (either copy) are in ascending
\* order of the sequence argument of their calls, an absent sequence counting
\* as 0, and two locations of equal sequence are in their order of arrival.
C11_SequenceOrdering ==
    DayDone =>
        \A a \in 1..Len(dayResult.locations) : \A b \in 1..Len(dayResult.locations) :
            a < b =>
                /\ ReturnedSequence(a) <= ReturnedSequence(b)
                /\ ReturnedSequence(a) = ReturnedSequence(b) =>
                      ArrivalOf(dayResult.locations[a]) < ArrivalOf(dayResult.locations[b])

\* C11 witness: the calls arrived with sequence 1, -1, 1; the second is
\* returned first and the two of sequence 1 are in their order of arrival.
C11_Witness ==
    /\ DayDone
    /\ Len(DayCalls) = 3
    /\ ArgSequence(1) = 1 /\ ArgSequence(2) = -1 /\ ArgSequence(3) = 1
    /\ Len(dayResult.locations) = 3
    /\ ArrivalOf(dayResult.locations[1]) = 2
    /\ ArrivalOf(dayResult.locations[2]) = 1
    /\ ArrivalOf(dayResult.locations[3]) = 3

\* C12: a location call with text name and description and numeric lat and
\* lng whose sequence (and duration) is absent is kept by planDayItinerary
\* (either copy).
C12_OptionalFieldsKept ==
    DayDone =>
        \A i \in 1..Len(DayCalls) :
            WellFormedLocation(i) /\ Get(DayCalls[i].args, "sequence") = Undef =>
                LocationReturned(i)

\* C19: planDayItinerary (either copy) returns the line of a line call only
\* if its start and its end are each a valid coordinate: lat and lng that
\* coerce to numbers with abs(lat) <= 90 and abs(lng) <= 180.
C19_LineEndpoints ==
    DayDone =>
        \A i \in 1..Len(DayCalls) :
            IsLineCall(DayCalls[i]) /\ LineReturned(i) =>
                /\ ValidEnd(Get(DayCalls[i].args, "start"))
                /\ ValidEnd(Get(DayCalls[i].args, "end"))

---------------------------------------------------------------------------
(* Further vocabulary of the properties of planRoute.                      *)

\* A point whose lat and lng coerce to numbers within the bounds.
ValidPoint(p) == validateCoord(GetOpt(p, "lat"), GetOpt(p, "lng")) # Null

\* A path that is an array with at least one valid coordinate.
DisplayablePath(path) ==
    isArray(path) /\ \E k \in 1..Len(path.e) : ValidPoint(path.e[k])

\* A position given as numeric text.
TextPosition(pos) ==
    /\ isString(GetOpt(pos, "lat")) /\ ToNumber(GetOpt(pos, "lat")).t = "number"
    /\ isString(GetOpt(pos, "lng")) /\ ToNumber(GetOpt(pos, "lng")).t = "number"

\* A position with a field that coerces to not-a-number.
NaNPosition(pos) ==
    \/ ToNumber(GetOpt(pos, "lat")).t = "NaN"
    \/ ToNumber(GetOpt(pos, "lng")).t = "NaN"

\* The position of text, as numbers.
Coerced(pos) == Obj2("lat", ToNumber(Get(pos, "lat")), "lng", ToNumber(Get(pos, "lng")))

\* A named landmark record.
Named(x) == x # Null /\ isString(Get(x, "name"))

\* C13: every step that planRoute returns (copies of part_003 and part_011)
\* has a path with at least one valid coordinate: a step whose path is empty
\* or holds no valid coordinate is dropped.
C13_EmptyPathDropped ==
    Done /\ Extracted /\ impl \in {"guards", "strict"} =>
        \A j \in 1..Len(result.steps) : DisplayablePath(Get(result.steps[j], "path"))

\* C14: a named landmark whose position is given as numeric text is returned
\* by planRoute (every copy) with the position as numbers, and so is the
\* location of a location call whose lat and lng are numeric text; a record
\* with a coordinate field that coerces to not-a-number is not returned.
C14_NumericCoercion ==
    /\ Done /\ Extracted /\ Completed =>
          \A i \in 1..Len(InArr("landmarks")) :
              Named(InArr("landmarks")[i]) =>
                  /\ TextPosition(Get(InArr("landmarks")[i], "position")) =>
                        \E j \in 1..Len(result.landmarks) :
                            Get(result.landmarks[j], "position")
                                = Coerced(Get(InArr("landmarks")[i], "position"))
                  /\ NaNPosition(Get(InArr("landmarks")[i], "position")) =>
                        \A j \in 1..Len(result.landmarks) :
                            Get(result.landmarks[j], "name")
                                # Get(InArr("landmarks")[i], "name")
    /\ DayDone =>
          \A i \in 1..Len(DayCalls) :
              IsLocationCall(DayCalls[i]) =>
                  /\ TextPosition(DayCalls[i].args) /\ isString(Get(DayCalls[i].args, "name")) =>
                        LocationReturned(i)
                  /\ NaNPosition(DayCalls[i].args) => ~LocationReturned(i)

\* The arrays planRoute returned, as a payload for the same validation.
OutPayload ==
    IF impl = "service" THEN Obj1("landmarks", Arr(result.landmarks))
    ELSE Obj3("steps", Arr(result.steps), "landmarks", Arr(result.landmarks),
              "traffic", Arr(result.trafficSegments))

\* The validation of the copy that ran, applied to pj for `key`.
Validated(pj, key) ==
    CASE impl = "guards" /\ key = "steps" -> GuardSteps(pj)
      [] impl = "guards" /\ key = "landmarks" -> GuardLandmarks(pj)
      [] impl = "guards" /\ key = "traffic" -> GuardTraffic(pj)
      [] impl = "strict" /\ key = "steps" -> StrictSteps(pj)
      [] impl = "strict" /\ key = "landmarks" -> StrictLandmarks(pj)
      [] impl = "strict" /\ key = "traffic" -> StrictTrafficSegments(pj)
      [] OTHER -> ServiceLandmarks(pj)

\* The records planDayItinerary returned, as the function calls of a reply.
CallsFrom(name, recs) == [i \in 1..Len(recs) |-> FunctionCall(name, recs[i])]

OutCalls ==
    CallsFrom("location", dayResult.locations) \o CallsFrom("line", dayResult.lines)

DayValidated(calls) ==
    IF dayImpl = "guards"
    THEN DayResult(SortBySequence(GuardDayLocations(calls)), GuardDayLines(calls),
                   dayResult.summaryText)
    ELSE DayResult(SortBySequence(StrictDayLocations(calls)), StrictDayLines(calls),
                   dayResult.summaryText)

\* C15: the arrays that planRoute returned (every copy), given again to the
\* validation of the same copy, come back identical, and so do the locations
\* and lines that planDayItinerary returned (either copy).
C15_RevalidationIdempotent ==
    /\ Done => \A key \in Keys : Validated(OutPayload, key) = OutArr(key)
    /\ DayDone => DayValidated(OutCalls) = dayResult

\* C15 witness: the copy of part_011 returned two steps, one with the
\* description it had to supply and one whose path lost an invalid point,
\* and validating them again changes nothing.
C15_Witness ==
    /\ Done /\ Extracted /\ impl = "strict"
    /\ Len(InArr("steps")) = 2
    /\ InArr("steps")[1] # Null /\ InArr("steps")[2] # Null
    /\ Get(InArr("steps")[1], "description") = Undef
    /\ Len(Get(InArr("steps")[2], "path").e) = 2
    /\ Len(result.steps) = 2
    /\ Get(result.steps[1], "description") = Str(<<"Move to next point">>)
    /\ Len(Get(result.steps[2], "path").e) = 1
    /\ Validated(OutPayload, "steps") = result.steps

\* An entry that is no record of its kind: no object, a step without a
\* valid coordinate in its path, a landmark without a valid position, a
\* traffic segment with an unknown level or without a path.
InvalidEntry(key, x) ==
    IF x.t # "object" THEN TRUE
    ELSE CASE key = "steps" -> ~DisplayablePath(Get(x, "path"))
           [] key = "landmarks" -> ~ValidPoint(Get(x, "position"))
           [] OTHER ->
                \/ ~isString(Get(x, "level"))
                \/ isString(Get(x, "level")) /\ Get(x, "level").s \notin TrafficLevels
                \/ ~isArray(Get(x, "path"))

\* C16: whatever value planRoute (every copy) parsed as the payload, a
\* candidate array that is missing, is no array or holds only invalid entries
\* gives an empty returned array, and planRoute returns a result with a text.
C16_EmptyOutcome ==
    Done /\ Extracted =>
        /\ isString(result.text)
        /\ \A key \in Keys :
               (\A i \in 1..Len(InArr(key)) : InvalidEntry(key, InArr(key)[i])) =>
                   OutArr(key) = <<>>

\* C17: when the request to the AI service fails, planRoute (every copy)
\* returns empty arrays with a fallback text, and planDayItinerary (either
\* copy) returns a result too: it does not raise the error to its caller.
C17_UpstreamFailure ==
    /\ pc = "done" /\ response.kind = "error" =>
          /\ isString(result.text) /\ result.text.s # <<>>
          /\ \A key \in Keys : OutArr(key) = <<>>
    /\ dayPc = "done" /\ dayResponse.kind = "error" => dayResult # DayThrown

---------------------------------------------------------------------------
(* Vocabulary of the properties of the render guard and of the board.      *)

\* A value that is absent or does not coerce to a number.
NotANumber(v) == v \in {Undef, Null} \/ ToNumber(v).t = "NaN"

\* Both fields are numbers and the point is (0, 0).
ExactlyOrigin(c) ==
    /\ ~NotANumber(c.lat) /\ ~NotANumber(c.lng)
    /\ ToNumber(c.lat).n = 0 /\ ToNumber(c.lng).n = 0

\* The updates of `type` that are in flight from the clients of S.
RECURSIVE InFlight(_, _)
InFlight(S, type) ==
    IF S = {} THEN 0
    ELSE Cardinality({i \in 1..Len(pending[CHOOSE c \in S : TRUE]) :
                         pending[CHOOSE c \in S : TRUE][i].type = type})
         + InFlight(S \ {CHOOSE c \in S : TRUE}, type)

\* The votes of `type` that the store has applied.
Applied(type) == cast[type] - InFlight(Clients, type)

\* C18: the render guard (every copy of isValidCoord) rejects a coordinate
\* exactly when a field is not a number or the point is exactly (0, 0); any
\* other coordinate, one with only lat = 0 or only lng = 0 included, is
\* plotted.
C18_RenderGuard ==
    mapPc = "done" =>
        (plotted <=> ~(NotANumber(coord.lat) \/ NotANumber(coord.lng) \/ ExactlyOrigin(coord)))

\* C20: whatever the interleaving of the votes of the clients, the stored
\* verificationCount of a report is its initial value plus the up votes
\* minus the down votes that the store has applied: once no update is in
\* flight, the initial value plus all up votes minus all down votes.  It is
\* not kept from going below zero.
C20_VoteCounter ==
    boardPc = "on" /\ stored # Undef =>
        stored.n = InitialCount + Applied("up") - Applied("down")

\* C20 witness: two clients voted down on the count they both saw as 1, a
\* third vote went down as well, all were applied, and the count is -2.
C20_Witness ==
    /\ boardPc = "on" /\ stored # Undef
    /\ InFlight(Clients, "up") = 0 /\ InFlight(Clients, "down") = 0
    /\ cast.up = 0 /\ cast.down = 3
    /\ stored.n = InitialCount - 3
    /\ stored.n < 0
    /\ \E c \in Clients : view[c] # stored


---------------------------------------------------------------------------
(* The properties of the validators called on one value.                   *)

\* An object whose lat and lng are both numbers (NaN is no number).
NumericPair(x) == x.t = "object" /\ isNumber(Get(x, "lat")) /\ isNumber(Get(x, "lng"))

\* A number, or text that holds a number.
NumberOrNumericText(v) ==
    \/ v.t = "number"
    \/ v.t = "string" /\ Trim(v.s) # <<>> /\ StringToNumber(v.s).t = "number"

\* C22: isRouteCoordinate(x) is a boolean for every x (null, 0 and the empty
\* string included), and it is true exactly when x is an object whose lat
\* and lng are both numbers and not NaN, whatever their range.
C22_LenientCoordinateGuard ==
    probePc = "done" /\ probeFn = "isRouteCoordinate" =>
        /\ probeOut \in {Bool(TRUE), Bool(FALSE)}
        /\ probeOut = Bool(TRUE) <=> NumericPair(probeArgs.x)

\* C25: validateCoord(lat, lng) (both copies) returns null whenever lat or
\* lng is neither a number nor numeric text: null, undefined, the empty
\* string, a boolean or an array is never coerced into a coordinate.
C25_MissingFieldsRejected ==
    /\ probePc = "done"
    /\ probeFn \in {"validateCoord", "validateCoordStrict"}
    /\ ~NumberOrNumericText(probeArgs.lat) \/ ~NumberOrNumericText(probeArgs.lng)
    => probeOut = Null

---------------------------------------------------------------------------
(* The property of the shape of planRoute's result.                        *)

\* The text returned is the reply with its first fenced block removed.
BlockRemoved ==
    /\ RegexMatch(rawText).found
    /\ result.text = Str(RemoveBlock(rawText, RegexMatch(rawText)))

\* The text returned is the whole reply and nothing was extracted.
NothingExtracted ==
    /\ result.text = Str(rawText)
    /\ result.steps = <<>>
    /\ result.landmarks = <<>>
    /\ result.trafficSegments = <<>>

\* C24: the result of planRoute (copies of part_003 and part_011) has one of
\* two shapes: the fenced block was removed from the text and the three
\* arrays were sanitized from the payload, or the text is the whole reply
\* and the three arrays are empty.  No result has a non-empty array while
\* its text still holds the fenced block.
C24_AllOrNothing ==
    Done /\ impl \in {"guards", "strict"} => BlockRemoved \/ NothingExtracted

---------------------------------------------------------------------------
(* The properties of the route planner.                                    *)

\* C21: right after the user submits a plan, switches the mode or presses
\* reset / plan-new / start-over (either planner), no result is held.
C21_ResultDiscarded ==
    planPc = "on" /\ lastEvent \in {"submit", "mode", "reset"} => held = NoHeld

\* C21 witness: a result that was held and saved has just been discarded by
\* the plan-new button.
C21_Witness ==
    /\ planPc = "on" /\ planner = "tabs"
    /\ lastEvent = "reset"
    /\ Len(savedItems) = 1 /\ savedItems[1].result.steps = MaxSteps
    /\ held = NoHeld

\* C26: a result held by the planner of Map.tsx was produced by a request,
\* or loaded from a saved plan, of the mode that is selected.
C26_ResultMatchesMode ==
    planPc = "on" /\ planner = "tabs" /\ held # NoHeld => held.origin = mode

\* C27: when the planner holds a result with at least one step, the step
\* index is within 0 .. steps - 1.
C27_StepIndexInRange ==
    planPc = "on" /\ held # NoHeld /\ held.steps >= 1 =>
        0 <= currentStepIndex /\ currentStepIndex < held.steps

\* C27 witness: a route of MaxSteps steps is held, it has been saved, and the
\* user has just stepped forward to its last step.
C27_Witness ==
    /\ planPc = "on" /\ planner = "tabs"
    /\ Len(savedItems) = 1
    /\ lastEvent = "next"
    /\ held # NoHeld /\ held.steps = MaxSteps
    /\ currentStepIndex = MaxSteps - 1

---------------------------------------------------------------------------
(* The property of startChat.                                              *)

\* The last call found a handle and the call before it asked for the same
\* language.
SameAsBefore == lastCall.old # 0 /\ lastCall.previous = lastCall.language

---------------------------------------------------------------------------
(* The property of the chat bot.                                           *)

\* The text of a message is of the kind it was appended for.
OwnText(m) == m.text.kind = m.slot.kind /\ m.text.send = m.slot.send

\* C29: at most one send of the chat bot is in flight, and the chunks of a
\* reply are written only into the bot message appended for its send: the
\* welcome message and the earlier messages keep their own text, whatever
\* the interleaving with a change of language.
C29_ChatStreamIsolation ==
    botPc = "on" =>
        /\ Cardinality(streams) <= 1
        /\ \A i \in 1..Len(messages) : OwnText(messages[i])

---------------------------------------------------------------------------
(* The properties of the campus context and of the local updates.         *)

\* C28: once no campus check is in flight, isScbContext is true if there is
\* no manual location, and otherwise is the answer to the check of the
\* manual location saved last, whatever the order in which saves and
\* answers interleaved.
C28_ContextFollowsLocation ==
    (appPc = "on" /\ checks.pending = <<>>) =>
        IF manualLocation = NoLocation THEN isScbContext
        ELSE isScbContext = (checks.latest = "yes")

\* C30: once no request for the local updates is in flight, the updates
\* shown are those of the request sent last; and loading is false only
\* when no request is in flight.
C30_LocalUpdatesCurrent ==
    feedPc = "on" =>
        /\ (requests = {} => updates = issued)
        /\ (~feedLoading => requests = {})

===========================================================================
